---- MODULE Spec2Model ----
(***************************************************************************)
(* Game scheduling and reservation lifecycle of scheduleTF.                *)
(*                                                                         *)
(* One team (guild) is modelled.  Time is counted in units of 15 minutes.  *)
(* The relational store is PostgreSQL at its default isolation level (READ *)
(* COMMITTED): a statement reads the rows committed so far plus the        *)
(* transaction's own writes, a write to a key another open transaction has *)
(* written waits for that transaction to end, and a transaction dropped    *)
(* without commit is rolled back.                                          *)
(***************************************************************************)
EXTENDS Integers, Sequences, FiniteSets, TLC

\* ------------------------------------------------------------------ bounds

NumProcs == 2
NumSlots == 2
NumMatches == 1
MaxReservations == 2
MaxMessages == 2
MaxCommands == 2
MaxEdits == 3
NumDates == 2
MaxQuery == 2
MaxMaps == 2
MaxMapText == 2
MaxConnectText == 2

\* ------------------------------------------------------- program constants

ScrimDuration == 4
MatchDuration == 8
WindowPadding == 1
UnknownMessage == 10008
ScheduleLimit == 25
AutocompleteLimit == 25

\* ----------------------------------------------------------- option values

None == <<>>
Some(x) == <<x>>
IsSome(o) == o /= <<>>
IsNone(o) == o = <<>>
Unwrap(o) == o[1]


\* -------------------------------------------------------------- the domain

Procs == 1..NumProcs
Guild == "guild"
Times == {2 + 2 * k : k \in 1..NumSlots}
MatchIds == 1..NumMatches
ReservationIds == 1..MaxReservations
MessageIds == 1..MaxMessages
Channel == "channel"
ApiKey == "key"
Opponents == {1}
GameFormats == {"Sixes", "Highlander"}
MapLists == {<<>>, <<"cp_process_f12">>, <<"koth_product_final">>, <<"pl_upward_f12">>}

\* ------------------------------------------------- ConnectInfo and its text

\* A text is a sequence of tokens: the words connect and password, blanks,
\* semicolons, double quotes, and ordinary characters.
IsWs(c) == c = " "

ConnectInfoToString(ci) ==
    <<"connect", " ">> \o ci.ip_and_port \o <<";", " ", "password", " ", "\"">>
        \o ci.password \o <<"\"">>

\* The first index j >= i of s that holds no blank (Len(s) + 1 if none).
RECURSIVE SkipWs(_, _)
SkipWs(s, i) == IF i <= Len(s) /\ IsWs(s[i]) THEN SkipWs(s, i + 1) ELSE i

\* \s*;\s*password\s+ matches s from index k on.
TailAt(s, k) ==
    LET a == SkipWs(s, k) IN
    /\ a <= Len(s) /\ s[a] = ";"
    /\ LET b == SkipWs(s, a + 1) IN
       /\ b + 1 <= Len(s) /\ s[b] = "password" /\ IsWs(s[b + 1])

\* The regular expression
\*   ^\s*connect\s+(?:(.*?)|"(.*)")\s*;\s*password\s+(?:(.*?)|"(.*)")\s*
\* under leftmost-first matching.  Group 1 is lazy: it ends at the first index
\* from which the tail matches, so the quoted alternative never takes part.
\* The expression has no end anchor: the lazy group 3 matches the empty text.
ConnectInfoFromStr(s) ==
    LET i0 == SkipWs(s, 1) IN
    IF ~(i0 + 1 <= Len(s) /\ s[i0] = "connect" /\ IsWs(s[i0 + 1]))
    THEN [ok |-> FALSE, error |-> "InvalidConnectInfo"]
    ELSE LET i1 == SkipWs(s, i0 + 1)
             ends == {k \in i1..(Len(s) + 1) : TailAt(s, k)}
         IN IF ends = {}
            THEN [ok |-> FALSE, error |-> "InvalidConnectInfo"]
            ELSE LET k == CHOOSE e \in ends : \A f \in ends : e <= f
                 IN [ok |-> TRUE,
                     value |-> [ip_and_port |-> SubSeq(s, i1, k - 1),
                                password |-> <<>>]]

\* What the command layer accepts as connect info: typed text, parsed.
UserConnectTexts ==
    { <<"connect", " ", "a", ";", " ", "password", " ", "\"", "p", "\"">> }

ConnectInfos == {ConnectInfoFromStr(s).value : s \in UserConnectTexts}

\* ------------------------------------------------------------- game values

Hosted(r) == [tag |-> "Hosted", reservation_id |-> r]
Joined(c) == [tag |-> "Joined", connect_info |-> c]
Undecided == [tag |-> "Undecided"]

ScrimDetails(o, f, m) ==
    [kind |-> "Scrim", opponent_user_id |-> o, game_format |-> f, maps |-> m]
MatchDetails(id) == [kind |-> "Match", rgl_match_id |-> id]

is_hosted(server) == server.tag = "Hosted"
is_joined(server) == server.tag = "Joined"

kind(details) == details.kind

\* ------------------------------------------------------ the league service

\* What the league API answers for a match id.
RglMatch(id) ==
    [match_date |-> 4 + 2 * id,
     maps |-> <<"koth_product_final">>,
     format_name |-> "Highlander"]

maps(details) ==
    IF details.kind = "Scrim" THEN details.maps ELSE RglMatch(details.rgl_match_id).maps

game_format(details) ==
    IF details.kind = "Scrim" THEN details.game_format
    ELSE RglMatch(details.rgl_match_id).format_name

\* ------------------------------------------------------------- map catalog

starts_with(m, prefix) ==
    CASE prefix = "cp_" -> m = "cp_process_f12"
      [] prefix = "koth_" -> m = "koth_product_final"
      [] prefix = "pl_" -> m = "pl_upward_f12"
      [] OTHER -> FALSE

\* Map::config: the id of the server config of a map, if it has one.
config(m, k, format) ==
    CASE k = "Scrim" /\ format = "Sixes" ->
            IF starts_with(m, "cp_") THEN Some(69)
            ELSE IF starts_with(m, "koth_") THEN Some(113) ELSE None
      [] k = "Scrim" /\ format = "Highlander" ->
            IF starts_with(m, "pl_") \/ starts_with(m, "cp_") THEN Some(55)
            ELSE IF starts_with(m, "koth_") THEN Some(54) ELSE None
      [] k = "Match" /\ format = "Sixes" ->
            IF starts_with(m, "cp_") THEN Some(109)
            ELSE IF starts_with(m, "koth_") THEN Some(110) ELSE None
      [] k = "Match" /\ format = "Highlander" ->
            IF starts_with(m, "pl_") \/ starts_with(m, "cp_") THEN Some(55)
            ELSE IF starts_with(m, "koth_") THEN Some(53) ELSE None

\* A server_config that falls back on the config of a sixes scrim on a
\* control-point map.
server_config_fallback(maplist, k, format) ==
    IF maplist = <<>> THEN <<None, Some(69)>>
    ELSE LET c == config(maplist[1], k, format)
         IN IF IsNone(c) THEN <<Some(maplist[1]), Some(69)>> ELSE <<Some(maplist[1]), c>>

\* MapList::server_config: <<first_map, server_config_id>>.
server_config(maplist, k, format) ==
    IF maplist = <<>> THEN <<None, None>>
    ELSE LET c == config(maplist[1], k, format)
         IN IF IsNone(c) THEN <<None, None>> ELSE <<Some(maplist[1]), c>>

\* ------------------------------------------------- rows and the row codec

Columns ==
    {"guild_id", "timestamp", "reservation_id", "connect_info",
     "opponent_user_id", "game_format", "maps", "rgl_match_id"}
PrimaryKey == {"guild_id", "timestamp"}

\* The stored row holds connect_info as text (From<ConnectInfo> for Value).
ToStored(model) ==
    [model EXCEPT !.connect_info =
        IF IsSome(@) THEN Some(ConnectInfoToString(Unwrap(@))) ELSE None]

\* Reading a stored row back (TryGetable for ConnectInfo parses the text).
FromStored(row) ==
    IF IsNone(row.connect_info) THEN [ok |-> TRUE, value |-> row]
    ELSE LET parsed == ConnectInfoFromStr(Unwrap(row.connect_info))
         IN IF parsed.ok
            THEN [ok |-> TRUE,
                  value |-> [row EXCEPT !.connect_info = Some(parsed.value)]]
            ELSE [ok |-> FALSE, error |-> "DbErr"]

\* A from_parts that takes the scrim columns whatever the match id.
from_parts_lenient(D, opp, fmt, ml, mid) ==
    IF IsSome(opp) /\ IsSome(fmt) /\ IsSome(ml) /\ D /= "Match"
    THEN Some(ScrimDetails(Unwrap(opp), Unwrap(fmt), Unwrap(ml)))
    ELSE IF IsNone(opp) /\ IsNone(fmt) /\ IsNone(ml) /\ IsSome(mid) /\ D /= "Scrim"
    THEN Some(MatchDetails(Unwrap(mid)))
    ELSE None

\* GameDetails::from_parts for D in {"Scrim", "Match", "ScrimOrMatch"}.
from_parts(D, opp, fmt, ml, mid) ==
    IF IsSome(opp) /\ IsSome(fmt) /\ IsSome(ml) /\ IsNone(mid) /\ D /= "Match"
    THEN Some(ScrimDetails(Unwrap(opp), Unwrap(fmt), Unwrap(ml)))
    ELSE IF IsNone(opp) /\ IsNone(fmt) /\ IsNone(ml) /\ IsSome(mid) /\ D /= "Scrim"
    THEN Some(MatchDetails(Unwrap(mid)))
    ELSE None

\* GameDetails::into_parts: <<opponent_user_id, game_format, maps, rgl_match_id>>.
into_parts(details) ==
    IF details.kind = "Scrim"
    THEN <<Some(details.opponent_user_id), Some(details.game_format),
           Some(details.maps), None>>
    ELSE <<None, None, None, Some(details.rgl_match_id)>>

\* Server columns that keep the reservation id alone.
ServerColumnsHostedOnly(server) ==
    CASE server.tag = "Hosted" -> <<Some(server.reservation_id), None>>
      [] OTHER -> <<None, None>>

\* The server columns of a GameServer: <<reservation_id, connect_info>>.
ServerColumns(server) ==
    CASE server.tag = "Hosted" -> <<Some(server.reservation_id), None>>
      [] server.tag = "Joined" -> <<None, Some(server.connect_info)>>
      [] OTHER -> <<None, None>>

\* A decoding that takes a row with both server columns for a hosted game.
try_from_hosted_first(D, model) ==
    LET server ==
            IF IsSome(model.reservation_id)
            THEN Hosted(Unwrap(model.reservation_id))
            ELSE IF IsSome(model.connect_info)
            THEN Joined(Unwrap(model.connect_info))
            ELSE Undecided
        details == from_parts(D, model.opponent_user_id, model.game_format,
                              model.maps, model.rgl_match_id)
    IN IF IsNone(details)
       THEN [ok |-> FALSE, error |-> "InvalidGameDetails"]
       ELSE [ok |-> TRUE,
             value |-> [guild_id |-> model.guild_id,
                        timestamp |-> model.timestamp,
                        server |-> server,
                        details |-> Unwrap(details)]]

\* TryFrom<Model> for Game<D> (and FromQueryResult for Game<D>).
try_from(D, model) ==
    IF IsSome(model.reservation_id) /\ IsSome(model.connect_info)
    THEN [ok |-> FALSE, error |-> "InvalidGameDetails"]
    ELSE LET server ==
                 IF IsSome(model.reservation_id)
                 THEN Hosted(Unwrap(model.reservation_id))
                 ELSE IF IsSome(model.connect_info)
                 THEN Joined(Unwrap(model.connect_info))
                 ELSE Undecided
             details == from_parts(D, model.opponent_user_id, model.game_format,
                                   model.maps, model.rgl_match_id)
         IN IF IsNone(details)
            THEN [ok |-> FALSE, error |-> "InvalidGameDetails"]
            ELSE [ok |-> TRUE,
                  value |-> [guild_id |-> model.guild_id,
                             timestamp |-> model.timestamp,
                             server |-> server,
                             details |-> Unwrap(details)]]

\* IntoActiveModel for Game<D>: every column Unchanged (none Set).
into_active_model(game) ==
    LET sc == ServerColumns(game.server)
        parts == into_parts(game.details)
    IN [values |-> [guild_id |-> game.guild_id, timestamp |-> game.timestamp,
                    reservation_id |-> sc[1], connect_info |-> sc[2],
                    opponent_user_id |-> parts[1], game_format |-> parts[2],
                    maps |-> parts[3], rgl_match_id |-> parts[4]],
        set |-> {}]

\* Game::start_end_times with the duration of a scrim for every kind.
start_end_times_scrim(game) ==
    <<game.timestamp - WindowPadding,
      game.timestamp + ScrimDuration + WindowPadding>>

\* Game::start_end_times: the booking window <<starts_at, ends_at>>.
start_end_times(game) ==
    LET duration == IF kind(game.details) = "Scrim" THEN ScrimDuration
                    ELSE MatchDuration
    IN <<game.timestamp - WindowPadding,
         game.timestamp + duration + WindowPadding>>

\* ------------------------------------------------------------------ state

VARIABLES
    games,          \* committed rows of the game table (stored form)
    team_guild,     \* committed row of the team in the team_guild table
    reservations,   \* the booking service: reservation id -> reservation
    cache,          \* serveme::CACHE: reservation id -> cached response
    discord,        \* the schedule channel: messages sent and still existing
    proc,           \* the handler each process runs and its locals
    started,        \* commands started so far
    codec,          \* a game value on its way through the row codec
    view            \* what the bot last rendered or offered, and from what

vars == <<games, team_guild, reservations, cache, discord, proc, started, codec, view>>

NoCmd == [name |-> "none"]

Idle ==
    [pc |-> "idle", cmd |-> NoCmd, guild |-> None, game |-> None,
     reservation |-> None, write |-> None, guild_write |-> None,
     requests |-> <<>>, published |-> <<>>, result |-> "", raced |-> {},
     find |-> None, found |-> None, server_id |-> None, config_write |-> None]

\* ------------------------------------------------------------- the commands

ScrimHost(t, o, ml, rid) ==
    [name |-> "scrim_host", date_time |-> t, opponent |-> o, maps |-> ml,
     reservation_id |-> rid]
ScrimJoin(t, o, ml, ci) ==
    [name |-> "scrim_join", date_time |-> t, opponent |-> o, maps |-> ml,
     connect_info |-> ci]
MatchHost(id, rid) ==
    [name |-> "match_host", match_id |-> id, reservation_id |-> rid]
MatchJoin(id, ci) ==
    [name |-> "match_join", match_id |-> id, connect_info |-> ci]
\* An edit subcommand carries the new value in the field of its own name.
Subcommand(what, v) ==
    CASE what = "DateTime" -> [what |-> what, new_date_time |-> v]
      [] what = "Opponent" -> [what |-> what, opponent |-> v]
      [] what = "GameFormat" -> [what |-> what, game_format |-> v]
      [] what = "Maps" -> [what |-> what, maps |-> v]
      [] what = "ReservationId" -> [what |-> what, reservation_id |-> v]
      [] what = "ConnectInfo" -> [what |-> what, connect_info |-> v]
ScrimEdit(t, what, v) ==
    [name |-> "scrim_edit", date_time |-> t] @@ Subcommand(what, v)
MatchEdit(t, what, v) ==
    [name |-> "match_edit", date_time |-> t] @@ Subcommand(what, v)
Delete(t) == [name |-> "delete", date_time |-> t]
Refresh == [name |-> "refresh"]

OptionOf(S) == {None} \cup {Some(x) : x \in S}

IsInsert(cmd) == cmd.name \in {"scrim_host", "scrim_join", "match_host", "match_join"}
IsHost(cmd) == cmd.name \in {"scrim_host", "match_host"}
IsEdit(cmd) == cmd.name \in {"scrim_edit", "match_edit"}

\* The start time a command addresses.
TimeOf(cmd) ==
    IF cmd.name \in {"match_host", "match_join"}
    THEN RglMatch(cmd.match_id).match_date
    ELSE cmd.date_time

\* --------------------------------------------------- the relational store

RowsAt(rows, t) == {r \in rows : r.guild_id = Guild /\ r.timestamp = t}

\* A store in which a write never waits for another transaction.
NoLockWait(p, t) == FALSE

\* Another open transaction has written (inserted, updated or deleted) key t.
KeyWrittenByOther(p, t) ==
    \E q \in Procs \ {p} : IsSome(proc[q].write) /\ Unwrap(proc[q].write).key = t

\* Another open transaction has updated or deleted the committed row at t.
RowLockedByOther(p, t) ==
    \E q \in Procs \ {p} :
        /\ IsSome(proc[q].write)
        /\ Unwrap(proc[q].write).key = t
        /\ Unwrap(proc[q].write).op \in {"update", "delete"}

GuildLockedByOther(p) ==
    \E q \in Procs \ {p} :
        IsSome(proc[q].guild_write) \/ IsSome(proc[q].config_write)

\* The rows a statement of p's transaction reads.
Visible(p) ==
    IF IsNone(proc[p].write) THEN games
    ELSE LET w == Unwrap(proc[p].write)
         IN CASE w.op = "insert" -> games \cup {w.row}
              [] w.op = "update" -> (games \ RowsAt(games, w.key)) \cup {w.row}
              [] w.op = "delete" -> games \ RowsAt(games, w.key)

\* The committed table after p's transaction commits.
Committed(p) == Visible(p)

\* An insert into a table without the primary key.
InsertRowUnchecked(rows, am) == [ok |-> TRUE, row |-> ToStored(am.values)]

\* INSERT of an active model: Set and Unchanged values are both written.  The
\* primary key (guild_id, timestamp) rejects a second row for a key.
InsertRow(rows, am) ==
    IF RowsAt(rows, am.values.timestamp) /= {}
    THEN [ok |-> FALSE, error |-> "UniqueViolation"]
    ELSE [ok |-> TRUE, row |-> ToStored(am.values)]

\* UPDATE of an active model: the Set columns outside the primary key are
\* assigned in the row whose key equals the model's key values.  With no such
\* column the statement is skipped and the row is read by key instead.
UpdateColumns(am) == am.set \ PrimaryKey

UpdateRow(rows, am) ==
    LET found == RowsAt(rows, am.values.timestamp)
        new == ToStored(am.values)
    IN IF found = {}
       THEN [ok |-> FALSE, error |-> "RecordNotUpdated"]
       ELSE LET old == CHOOSE r \in found : TRUE
            IN [ok |-> TRUE,
                row |-> [c \in Columns |->
                            IF c \in UpdateColumns(am) THEN new[c] ELSE old[c]]]

\* A slot check that looks at scrims alone.
ensure_time_open_scrims(rows, t) ==
    IF {r \in RowsAt(rows, t) : IsNone(r.rgl_match_id)} /= {}
    THEN "TimeSlotTaken" ELSE "ok"

\* TeamGuild::ensure_time_open: any row at (guild, t), scrim or match alike.
ensure_time_open(rows, t) ==
    IF RowsAt(rows, t) /= {} THEN "TimeSlotTaken" ELSE "ok"

\* A filter that lets every row through, whatever the kind asked for.
filter_expr_any(D, row) == TRUE

\* GameDetails::filter_expr of D.
filter_expr(D, row) ==
    CASE D = "Scrim" -> IsNone(row.rgl_match_id)
      [] D = "Match" -> IsSome(row.rgl_match_id)
      [] OTHER -> TRUE

\* FromQueryResult for Game<D>.
from_query_result(D, loaded) ==
    IF loaded.ok THEN try_from(D, loaded.value) ELSE loaded

Filtered(D, found) ==
    IF found = {} THEN [ok |-> FALSE, error |-> "GameNotFound"]
    ELSE from_query_result(D, FromStored(CHOOSE r \in found : TRUE))

\* TeamGuild::get_game::<D>: the row at (guild, t) that passes D's filter.
get_game(rows, D, t) == Filtered(D, {r \in RowsAt(rows, t) : filter_expr(D, r)})

\* ------------------------------------------------------ the booking service

\* ReservationResponse of reservation id r.
Response(rs, r) == [id |-> r] @@ rs[r]

Exists(r) == r \in 1..Len(reservations)

\* What a find-servers request may answer: servers by the prefix of their
\* address.  Only addresses starting with chi or ks are used.
FindServersResults ==
    {<<>>, <<"dal">>, <<"dal", "chi", "ks">>, <<"dal", "ks", "chi">>}

Preferred(servers) ==
    {i \in 1..Len(servers) : servers[i] \in {"chi", "ks"}}

\* A choice of the first server whose address starts with chi.
find_server_chi(servers) ==
    IF \E i \in 1..Len(servers) : servers[i] = "chi"
    THEN Some(CHOOSE i \in 1..Len(servers) :
                 /\ servers[i] = "chi"
                 /\ \A j \in 1..(i - 1) : servers[j] /= "chi")
    ELSE None

\* servers.iter().find(..): the id of the first preferred server, the id of
\* a server being its place in the answer.
find_server(servers) ==
    IF Preferred(servers) = {} THEN None
    ELSE Some(CHOOSE i \in Preferred(servers) : \A j \in Preferred(servers) : i <= j)

\* An edit request that never carries the first map or the config.
EditReservationRequestWindowOnly(game, reservation) ==
    LET se == start_end_times(game)
    IN [starts_at |-> IF se[1] < reservation.starts_at THEN Some(se[1]) ELSE None,
        ends_at |-> IF se[2] > reservation.ends_at THEN Some(se[2]) ELSE None,
        first_map |-> None,
        server_config_id |-> None]

\* An edit request that carries the first map and the config whatever the
\* windows.
EditReservationRequestAlwaysConfig(game, reservation) ==
    LET se == start_end_times(game)
        sc == server_config(maps(game.details), kind(game.details),
                            game_format(game.details))
    IN [starts_at |-> IF se[1] < reservation.starts_at THEN Some(se[1]) ELSE None,
        ends_at |-> IF se[2] > reservation.ends_at THEN Some(se[2]) ELSE None,
        first_map |-> sc[1],
        server_config_id |-> sc[2]]

\* An edit request that carries the first map and the config only when the
\* game's window starts before the reservation.
EditReservationRequestStrictlyEarlier(game, reservation) ==
    LET se == start_end_times(game)
        sc == IF se[1] < reservation.starts_at
              THEN server_config(maps(game.details), kind(game.details),
                                 game_format(game.details))
              ELSE <<None, None>>
    IN [starts_at |-> IF se[1] < reservation.starts_at THEN Some(se[1]) ELSE None,
        ends_at |-> IF se[2] > reservation.ends_at THEN Some(se[2]) ELSE None,
        first_map |-> sc[1],
        server_config_id |-> sc[2]]

\* EditReservationRequest of a game against the reservation as fetched.
EditReservationRequest(game, reservation) ==
    LET se == start_end_times(game)
        sc == IF se[1] <= reservation.starts_at
              THEN server_config(maps(game.details), kind(game.details),
                                 game_format(game.details))
              ELSE <<None, None>>
    IN [starts_at |-> IF se[1] < reservation.starts_at THEN Some(se[1]) ELSE None,
        ends_at |-> IF se[2] > reservation.ends_at THEN Some(se[2]) ELSE None,
        first_map |-> sc[1],
        server_config_id |-> sc[2]]

DefaultEditReservationRequest ==
    [starts_at |-> None, ends_at |-> None, first_map |-> None,
     server_config_id |-> None]

\* The service applies the fields a PATCH carries.
Patched(old, req) ==
    [starts_at |-> IF IsSome(req.starts_at) THEN Unwrap(req.starts_at)
                   ELSE old.starts_at,
     ends_at |-> IF IsSome(req.ends_at) THEN Unwrap(req.ends_at) ELSE old.ends_at,
     first_map |-> IF IsSome(req.first_map) THEN req.first_map ELSE old.first_map,
     server_config_id |-> IF IsSome(req.server_config_id) THEN req.server_config_id
                          ELSE old.server_config_id]

\* FindServersRequest of a game: the window asked for.
FindServersRequest(game) ==
    [starts_at |-> start_end_times(game)[1], ends_at |-> start_end_times(game)[2]]

\* CreateReservationRequest of a game.
CreateReservationRequest(game) ==
    LET se == start_end_times(game)
        sc == server_config(maps(game.details), kind(game.details),
                            game_format(game.details))
    IN [starts_at |-> se[1], ends_at |-> se[2], first_map |-> sc[1],
        server_config_id |-> sc[2]]

\* ------------------------------------------------------------ the handlers

Set(p, fields) == proc' = [proc EXCEPT ![p] = fields @@ @]

\* An error return: the transaction is dropped without commit.
FailAfter(p, error, sent) ==
    Set(p, [pc |-> "done", result |-> error, write |-> None,
            guild_write |-> None, game |-> None, reservation |-> None,
            guild |-> None, requests |-> proc[p].requests \o sent])

Fail(p, error) == FailAfter(p, error, <<>>)

\* An error return of create_reservation, after the find-servers request.
FailAfterFind(p, error, sent, find, found, server_id) ==
    Set(p, [pc |-> "done", result |-> error, write |-> None,
            guild_write |-> None, game |-> None, reservation |-> None,
            guild |-> None, requests |-> proc[p].requests \o sent,
            find |-> Some(find), found |-> found, server_id |-> server_id])

Running(q) == proc[q].pc \notin {"idle", "done"}

\* get_guild_tx: begin a transaction and read the team's row.  (raced records
\* the running host and join commands for the same start time that this
\* command overlaps; no handler reads it.)
Start(p, cmd) ==
    LET rivals == {q \in Procs \ {p} :
                     /\ Running(q) /\ IsInsert(proc[q].cmd) /\ IsInsert(cmd)
                     /\ TimeOf(proc[q].cmd) = TimeOf(cmd)}
    IN
    /\ proc[p].pc \in {"idle", "done"}
    /\ started' = started + 1
    /\ proc' = [q \in Procs |->
            IF q = p
            THEN [pc |-> IF cmd.name = "refresh" THEN "written" ELSE "begun",
                  cmd |-> cmd, guild |-> Some(team_guild), raced |-> rivals] @@ Idle
            ELSE IF q \in rivals THEN [raced |-> proc[q].raced \cup {p}] @@ proc[q]
            ELSE proc[q]]
    /\ UNCHANGED <<games, team_guild, reservations, cache, discord, codec, view>>
\* A host command that takes no notice of the reservation it was given.
NewGameUndecided(cmd, guild) ==
    [guild_id |-> Guild,
     timestamp |-> TimeOf(cmd),
     server |->
        IF IsHost(cmd) THEN Undecided
        ELSE IF IsSome(cmd.connect_info) THEN Joined(Unwrap(cmd.connect_info))
             ELSE Undecided,
     details |->
        IF cmd.name \in {"scrim_host", "scrim_join"}
        THEN ScrimDetails(cmd.opponent, Unwrap(guild.game_format), cmd.maps)
        ELSE MatchDetails(cmd.match_id)]

\* The game a host or join command builds.
NewGame(cmd, guild) ==
    [guild_id |-> Guild,
     timestamp |-> TimeOf(cmd),
     server |->
        IF IsHost(cmd)
        THEN IF IsSome(cmd.reservation_id) THEN Hosted(Unwrap(cmd.reservation_id))
             ELSE Undecided
        ELSE IF IsSome(cmd.connect_info) THEN Joined(Unwrap(cmd.connect_info))
             ELSE Undecided,
     details |->
        IF cmd.name \in {"scrim_host", "scrim_join"}
        THEN ScrimDetails(cmd.opponent, Unwrap(guild.game_format), cmd.maps)
        ELSE MatchDetails(cmd.match_id)]

\* host and join, up to the booking: the league lookup of a match, the slot
\* check, the game value and the API key.
EnsureTimeOpen(p) ==
    LET cmd == proc[p].cmd
        guild == Unwrap(proc[p].guild)
        t == TimeOf(cmd)
    IN
    /\ proc[p].pc = "begun"
    /\ IsInsert(cmd)
    /\ \E rgl_ok \in BOOLEAN :
        /\ rgl_ok \/ cmd.name \in {"match_host", "match_join"}
        /\ IF ~rgl_ok THEN Fail(p, "RglError")
           ELSE IF ensure_time_open(Visible(p), t) /= "ok"
           THEN Fail(p, "TimeSlotTaken")
           ELSE IF IsNone(guild.game_format) /\ cmd.name \in {"scrim_host", "scrim_join"}
           THEN Fail(p, "NoGameFormat")
           ELSE IF IsHost(cmd) /\ IsNone(guild.serveme_api_key)
           THEN Fail(p, "NoServemeApiKey")
           ELSE Set(p, [pc |-> IF IsHost(cmd) THEN "open" ELSE "reserved",
                        game |-> Some(NewGame(cmd, guild))])
    /\ UNCHANGED <<games, team_guild, reservations, cache, discord, started, codec, view>>

\* What an edit subcommand does to the game it loaded.
Edited(game, cmd) ==
    CASE cmd.what = "DateTime" -> [game EXCEPT !.timestamp = cmd.new_date_time]
      [] cmd.what = "Opponent" -> [game EXCEPT !.details.opponent_user_id = cmd.opponent]
      [] cmd.what = "GameFormat" -> [game EXCEPT !.details.game_format = cmd.game_format]
      [] cmd.what = "Maps" -> [game EXCEPT !.details.maps = cmd.maps]
      [] cmd.what = "ReservationId" ->
            IF IsSome(cmd.reservation_id)
            THEN [game EXCEPT !.server = Hosted(Unwrap(cmd.reservation_id))]
            ELSE IF is_hosted(game.server) THEN [game EXCEPT !.server = Undecided]
            ELSE game
      [] cmd.what = "ConnectInfo" ->
            IF IsSome(cmd.connect_info)
            THEN [game EXCEPT !.server = Joined(Unwrap(cmd.connect_info))]
            ELSE IF is_joined(game.server) THEN [game EXCEPT !.server = Undecided]
            ELSE game

\* The subcommands that go on to edit_reservation when the game is hosted.
EditsReservation(cmd) ==
    cmd.what \in {"DateTime", "GameFormat", "Maps", "ReservationId"}

\* An edit of the connect info that resets the connect_info column alone.
ResetColumnsConnectOnly(cmd) ==
    CASE cmd.what = "DateTime" -> {"timestamp"}
      [] cmd.what = "Opponent" -> {"opponent_user_id"}
      [] cmd.what = "GameFormat" -> {"game_format"}
      [] cmd.what = "Maps" -> {"maps"}
      [] cmd.what = "ReservationId" -> {"reservation_id", "connect_info"}
      [] cmd.what = "ConnectInfo" -> {"connect_info"}

\* The columns an edit subcommand resets on the active model.
ResetColumns(cmd) ==
    CASE cmd.what = "DateTime" -> {"timestamp"}
      [] cmd.what = "Opponent" -> {"opponent_user_id"}
      [] cmd.what = "GameFormat" -> {"game_format"}
      [] cmd.what = "Maps" -> {"maps"}
      [] cmd.what = "ReservationId" -> {"reservation_id", "connect_info"}
      [] cmd.what = "ConnectInfo" ->
            IF cmd.name = "scrim_edit" THEN {"reservation_id", "connect_info"}
            ELSE {"reservation_id"}

EditActiveModel(game, cmd) ==
    [into_active_model(game) EXCEPT !.set = ResetColumns(cmd)]

\* An edit that asks the team for its booking key whatever the server of
\* the game.
LoadedKeyFirst(p, game) ==
    IF EditsReservation(proc[p].cmd) /\ IsNone(Unwrap(proc[p].guild).serveme_api_key)
    THEN Fail(p, "NoServemeApiKey")
    ELSE IF is_hosted(game.server) /\ EditsReservation(proc[p].cmd)
    THEN Set(p, [pc |-> "open", game |-> Some(game)])
    ELSE Set(p, [pc |-> "reserved", game |-> Some(game)])

\* Edit*Command::run after the change to the game: the booking key and
\* edit_reservation if the game is hosted, then the active model.
Loaded(p, game) ==
    IF is_hosted(game.server) /\ EditsReservation(proc[p].cmd)
    THEN IF IsNone(Unwrap(proc[p].guild).serveme_api_key)
         THEN Fail(p, "NoServemeApiKey")
         ELSE Set(p, [pc |-> "open", game |-> Some(game)])
    ELSE Set(p, [pc |-> "reserved", game |-> Some(game)])

Found(p, found) ==
    IF ~found.ok THEN Fail(p, found.error)
    ELSE Loaded(p, Edited(found.value, proc[p].cmd))

\* edit, up to the booking: load the game of the command's kind and apply
\* the subcommand to it.
GetGame(p) ==
    /\ proc[p].pc = "begun"
    /\ IsEdit(proc[p].cmd)
    /\ Found(p, get_game(Visible(p),
                         IF proc[p].cmd.name = "scrim_edit" THEN "Scrim" ELSE "Match",
                         proc[p].cmd.date_time))
    /\ UNCHANGED <<games, team_guild, reservations, cache, discord, started, codec, view>>

\* GetReservationRequest::send through the cache (first half of
\* edit_reservation).
GetReservation(p) ==
    LET game == Unwrap(proc[p].game)
        r == game.server.reservation_id
    IN
    /\ proc[p].pc = "open"
    /\ is_hosted(game.server)
    /\ IF IsSome(cache[r])
       THEN /\ Set(p, [pc |-> "got", reservation |-> cache[r]])
            /\ UNCHANGED cache
       ELSE \E answered \in BOOLEAN :
            IF answered /\ Exists(r)
            THEN /\ Set(p, [pc |-> "got",
                            reservation |-> Some(Response(reservations, r)),
                            requests |-> Append(proc[p].requests, "get")])
                 /\ cache' = [cache EXCEPT ![r] = Some(Response(reservations, r))]
            ELSE /\ FailAfter(p, "ServemeError", <<"get">>)
                 /\ UNCHANGED cache
    /\ UNCHANGED <<games, team_guild, reservations, discord, started, codec, view>>

\* The second half of edit_reservation: build the request from the game and
\* the reservation as fetched; send it unless it is empty.
EditReservation(p) ==
    LET game == Unwrap(proc[p].game)
        r == game.server.reservation_id
        req == EditReservationRequest(game, Unwrap(proc[p].reservation))
    IN
    /\ proc[p].pc = "got"
    /\ IF req = DefaultEditReservationRequest
       THEN /\ Set(p, [pc |-> "reserved"])
            /\ UNCHANGED <<reservations, cache>>
       ELSE \E answered \in BOOLEAN :
            IF answered /\ Exists(r)
            THEN LET new == Patched(reservations[r], req)
                 IN /\ reservations' = [reservations EXCEPT ![r] = new]
                    /\ cache' = [cache EXCEPT ![r] = Some([id |-> r] @@ new)]
                    /\ Set(p, [pc |-> "reserved",
                               reservation |-> Some([id |-> r] @@ new),
                               requests |-> Append(proc[p].requests, "edit")])
            ELSE /\ FailAfter(p, "ServemeError", <<"edit">>)
                 /\ UNCHANGED <<reservations, cache>>
    /\ UNCHANGED <<games, team_guild, discord, started, codec, view>>

\* A game that does not take up the reservation created for it.
NotBooked(game, id) == game

\* The game after its reservation was created.
Booked(game, id) == [game EXCEPT !.server = Hosted(id)]

\* create_reservation: one find-servers request, the first server whose
\* address starts with chi or ks, one create request.
CreateReservation(p) ==
    LET game == Unwrap(proc[p].game)
        r == Len(reservations) + 1
        new == CreateReservationRequest(game)
    IN
    /\ proc[p].pc = "open"
    /\ ~is_hosted(game.server)
    /\ \E servers \in FindServersResults, found \in BOOLEAN, created \in BOOLEAN :
        IF ~found
        THEN /\ FailAfterFind(p, "ServemeError", <<"find">>, FindServersRequest(game),
                              None, None)
             /\ UNCHANGED <<reservations, cache>>
        ELSE IF IsNone(find_server(servers))
        THEN /\ FailAfterFind(p, "NoServemeServers", <<"find">>,
                              FindServersRequest(game), Some(servers), None)
             /\ UNCHANGED <<reservations, cache>>
        ELSE IF created /\ r <= MaxReservations
        THEN /\ reservations' = Append(reservations, new)
             /\ cache' = [cache EXCEPT ![r] = Some([id |-> r] @@ new)]
             /\ Set(p, [pc |-> "reserved",
                        game |-> Some(Booked(game, r)),
                        reservation |-> Some([id |-> r] @@ new),
                        requests |-> proc[p].requests \o <<"find", "create">>,
                        find |-> Some(FindServersRequest(game)),
                        found |-> Some(servers),
                        server_id |-> find_server(servers)])
        ELSE /\ FailAfterFind(p, "ServemeError", <<"find", "create">>,
                              FindServersRequest(game), Some(servers),
                              find_server(servers))
             /\ UNCHANGED <<reservations, cache>>
    /\ UNCHANGED <<games, team_guild, discord, started, codec, view>>

\* Decoding the row a statement returns (FromQueryResult, then TryFrom).
Decoded(loaded) ==
    IF loaded.ok THEN try_from("ScrimOrMatch", loaded.value) ELSE loaded

Returned(row) == Decoded(FromStored(row))

\* The handler goes on with the game a write statement returned.
Written(p, write, game) ==
    IF ~game.ok THEN Fail(p, game.error)
    ELSE Set(p, [pc |-> "written", game |-> Some(game.value), write |-> write])

WriteResult(p, op, key, res) ==
    IF ~res.ok THEN Fail(p, res.error)
    ELSE Written(p, Some([op |-> op, key |-> key, row |-> res.row]),
                 Returned(res.row))

\* host and join: insert the row.  The statement waits while another open
\* transaction has a write on the key.
InsertGame(p) ==
    /\ proc[p].pc = "reserved"
    /\ IsInsert(proc[p].cmd)
    /\ ~KeyWrittenByOther(p, Unwrap(proc[p].game).timestamp)
    /\ WriteResult(p, "insert", Unwrap(proc[p].game).timestamp,
                   InsertRow(games, into_active_model(Unwrap(proc[p].game))))
    /\ UNCHANGED <<games, team_guild, reservations, cache, discord, started, codec, view>>

\* An update with no column to assign: the row of the key is read instead.
ReadBack(p, res) ==
    IF ~res.ok THEN Fail(p, res.error) ELSE Written(p, None, Returned(res.row))

UpdateResult(p, am) ==
    IF UpdateColumns(am) = {}
    THEN ReadBack(p, UpdateRow(Visible(p), am))
    ELSE /\ ~RowLockedByOther(p, am.values.timestamp)
         /\ WriteResult(p, "update", am.values.timestamp, UpdateRow(games, am))

\* edit: update the row from the active model the subcommand returned.
UpdateGame(p) ==
    /\ proc[p].pc = "reserved"
    /\ IsEdit(proc[p].cmd)
    /\ UpdateResult(p, EditActiveModel(Unwrap(proc[p].game), proc[p].cmd))
    /\ UNCHANGED <<games, team_guild, reservations, cache, discord, started, codec, view>>

\* A delete that also asks the booking service to end the reservation.
DeleteResultCancelling(p, t, found) ==
    IF found = {} THEN Fail(p, "GameNotFound")
    ELSE Set(p, [pc |-> "written",
                 game |-> Some(Returned(CHOOSE r \in found : TRUE).value),
                 write |-> Some([op |-> "delete", key |-> t]),
                 requests |-> Append(proc[p].requests, "delete")])

DeleteResult(p, t, found) ==
    IF found = {} THEN Fail(p, "GameNotFound")
    ELSE Written(p, Some([op |-> "delete", key |-> t]),
                 Returned(CHOOSE r \in found : TRUE))

\* delete: delete the row by key and take what the statement returns.
DeleteGame(p) ==
    /\ proc[p].pc = "begun"
    /\ proc[p].cmd.name = "delete"
    /\ ~RowLockedByOther(p, proc[p].cmd.date_time)
    /\ DeleteResult(p, proc[p].cmd.date_time, RowsAt(games, proc[p].cmd.date_time))
    /\ UNCHANGED <<games, team_guild, reservations, cache, discord, started, codec, view>>

\* ------------------------------------------------------------ the schedule

\* The servers of the games of the schedule by start time.  All modelled
\* start times fall on one date and none has passed.
ScheduleServers(rows) ==
    [t \in {r.timestamp : r \in rows} |->
        Returned(CHOOSE r \in RowsAt(rows, t) : TRUE).value.server]

\* The connect block of a game is left out when the next game of the date
\* has the same server.
include_connect(servers, t) ==
    \A u \in DOMAIN servers :
        (u > t /\ \A v \in DOMAIN servers : v > t => u <= v)
            => servers[t] /= servers[u]

\* The reservations the schedule embed reads.
Listed(servers) ==
    {servers[t].reservation_id :
        t \in {u \in DOMAIN servers :
                 is_hosted(servers[u]) /\ include_connect(servers, u)}}

ScheduleReservations(rows) == Listed(ScheduleServers(rows))

\* The reservation the embed of the command's game reads.
EmbedReservations(game) ==
    IF IsSome(game) /\ is_hosted(Unwrap(game).server)
    THEN {Unwrap(game).server.reservation_id} ELSE {}

\* The cache after the reservations rs were read through it.
Filled(c, rs) ==
    [r \in ReservationIds |->
        IF r \in rs /\ IsNone(c[r]) THEN Some(Response(reservations, r)) ELSE c[r]]

Gets(c, rs) == [i \in 1..Cardinality({r \in rs : IsNone(c[r])}) |-> "get"]

\* What can go wrong outside the program while it publishes.
Faults == {"none", "embed", "schedule", "edit", "discord"}

\* A request for a reservation that is not cached fails under its fault or
\* when the id is unknown to the service.
GetFails(c, rs, faulty) == \E r \in rs : IsNone(c[r]) /\ (faulty \/ ~Exists(r))

\* What the channel answers to the edit of message m: done, the error code
\* of a message that no longer exists, or another error (code 0).
edit_message(m, fault) ==
    IF fault \in {"edit", "discord"} THEN [ok |-> FALSE, code |-> 0]
    ELSE IF m \in discord.live THEN [ok |-> TRUE, code |-> 0]
    ELSE [ok |-> FALSE, code |-> UnknownMessage]

\* A refresh that sends a new message after any failure of the edit.
SendsNewOnAnyError(message, fault) ==
    \/ IsNone(message)
    \/ ~edit_message(Unwrap(message), fault).ok

\* refresh_schedule goes on to send a new message when no message id is
\* stored or the edit answered that the message no longer exists.
SendsNew(message, fault) ==
    \/ IsNone(message)
    \/ /\ ~edit_message(Unwrap(message), fault).ok
       /\ edit_message(Unwrap(message), fault).code = UnknownMessage

\* A team's row that does not take up the id of the new message.
KeepScheduleMessage(id) == team_guild

\* The team's row after the id of the new message was stored in the
\* transaction (the update returns the row).
SetScheduleMessage(id) == [team_guild EXCEPT !.schedule_message_id = Some(id)]

Failed(error, c, guild, sent) ==
    [error |-> error, cache |-> c, discord |-> discord, guild_write |-> None,
     guild |-> guild, published |-> <<>>, requests |-> sent]

\* refresh_schedule from the edit of the stored message on.
Republish(fault, guild, c, sent, id) ==
    IF ~SendsNew(guild.schedule_message_id, fault)
    THEN IF edit_message(Unwrap(guild.schedule_message_id), fault).ok
         THEN [error |-> "", cache |-> c, discord |-> discord,
               guild_write |-> None, guild |-> guild,
               published |-> <<[op |-> "edit",
                                id |-> Unwrap(guild.schedule_message_id)]>>,
               requests |-> sent]
         ELSE Failed("DiscordError", c, guild, sent)
    ELSE IF fault = "discord" \/ id > MaxMessages
    THEN Failed("DiscordError", c, guild, sent)
    ELSE [error |-> "", cache |-> c,
          discord |-> [sent |-> id, live |-> discord.live \cup {id}],
          guild_write |-> SetScheduleMessage(id).schedule_message_id,
          guild |-> SetScheduleMessage(id),
          published |-> <<[op |-> "send", id |-> id]>>,
          requests |-> sent]

\* refresh_schedule: the channel, the schedule embed, the message.
refresh_schedule(fault, guild, c, sent, listed) ==
    IF IsNone(guild.schedule_channel_id)
    THEN Failed("NoScheduleChannel", c, guild, sent)
    ELSE IF listed /= {} /\ IsNone(guild.serveme_api_key)
    THEN Failed("NoServemeApiKey", c, guild, sent)
    ELSE IF GetFails(c, listed, fault = "schedule")
    THEN Failed("ServemeError", c, guild, sent \o <<"get">>)
    ELSE Republish(fault, guild, Filled(c, listed), sent \o Gets(c, listed),
                   discord.sent + 1)

\* The embed of the command's game, then refresh_schedule.
Published(fault, guild, own, listed) ==
    IF own /= {} /\ IsNone(guild.serveme_api_key)
    THEN Failed("NoServemeApiKey", cache, guild, <<>>)
    ELSE IF GetFails(cache, own, fault = "embed")
    THEN Failed("ServemeError", cache, guild, <<"get">>)
    ELSE refresh_schedule(fault, guild, Filled(cache, own), Gets(cache, own), listed)

PublishOutcome(p, fault) ==
    Published(fault, Unwrap(proc[p].guild), EmbedReservations(proc[p].game),
              ScheduleReservations(Visible(p)))

PublishResult(p, out) ==
    /\ IsSome(out.guild_write) => ~GuildLockedByOther(p)
    /\ cache' = out.cache
    /\ discord' = out.discord
    /\ IF out.error /= "" THEN FailAfter(p, out.error, out.requests)
       ELSE Set(p, [pc |-> "refreshed", guild |-> Some(out.guild),
                    guild_write |-> out.guild_write,
                    published |-> out.published,
                    requests |-> proc[p].requests \o out.requests])

\* Every command, after its write: build the embed of the game and refresh
\* the schedule message.  Storing a new message id waits while another open
\* transaction has written the team's row.
Publish(p) ==
    /\ proc[p].pc = "written"
    /\ \E fault \in Faults : PublishResult(p, PublishOutcome(p, fault))
    /\ UNCHANGED <<games, team_guild, reservations, started, codec, view>>

\* A commit whose failure leaves the writes of the transaction behind.
CommitLeaky(p) ==
    /\ proc[p].pc = "refreshed"
    /\ \E committed \in BOOLEAN :
        /\ games' = Committed(p)
        /\ team_guild' =
               IF IsSome(proc[p].guild_write)
               THEN [team_guild EXCEPT !.schedule_message_id = proc[p].guild_write]
               ELSE team_guild
        /\ IF committed
           THEN Set(p, [pc |-> "done", result |-> "ok", write |-> None,
                        guild_write |-> None, game |-> None,
                        reservation |-> None, guild |-> None])
           ELSE Fail(p, "DbErr")
    /\ UNCHANGED <<reservations, cache, discord, started, codec, view>>

\* tx.commit(): the writes of the transaction become the committed state.
Commit(p) ==
    /\ proc[p].pc = "refreshed"
    /\ \E committed \in BOOLEAN :
        IF committed
        THEN /\ games' = Committed(p)
             /\ team_guild' =
                    IF IsSome(proc[p].guild_write)
                    THEN [team_guild EXCEPT
                            !.schedule_message_id = proc[p].guild_write]
                    ELSE team_guild
             /\ Set(p, [pc |-> "done", result |-> "ok", write |-> None,
                        guild_write |-> None, game |-> None,
                        reservation |-> None, guild |-> None])
        ELSE /\ Fail(p, "DbErr")
             /\ UNCHANGED <<games, team_guild>>
    /\ UNCHANGED <<reservations, cache, discord, started, codec, view>>

\* ---------------------------------------------------------- the environment

\* Somebody deletes a message of the schedule channel.
DeleteMessage(m) ==
    /\ m \in discord.live
    /\ discord' = [discord EXCEPT !.live = @ \ {m}]
    /\ UNCHANGED <<games, team_guild, reservations, cache, proc, started, codec, view>>

\* A cache entry reaches its time to live.
Expire(r) ==
    /\ IsSome(cache[r])
    /\ cache' = [cache EXCEPT ![r] = None]
    /\ UNCHANGED <<games, team_guild, reservations, discord, proc, started, codec, view>>

\* ------------------------------------------------------- the specification

Init ==
    /\ games = {}
    /\ reservations = <<>>
    /\ cache = [r \in ReservationIds |-> None]
    /\ discord = [sent |-> 0, live |-> {}]
    /\ proc = [p \in Procs |-> Idle]
    /\ started = 0
    /\ codec = None
    /\ view = None
    /\ team_guild \in
        { [schedule_channel_id |-> ch, schedule_message_id |-> None,
           serveme_api_key |-> Some(ApiKey), game_format |-> Some("Sixes")] :
          ch \in {None, Some(Channel)} }

HostJoinCommands ==
    {ScrimHost(t, o, ml, rid) :
        t \in Times, o \in Opponents, ml \in {<<"cp_process_f12">>},
        rid \in OptionOf(ReservationIds)}
    \cup {ScrimJoin(t, o, ml, ci) :
        t \in Times, o \in Opponents, ml \in {<<"cp_process_f12">>},
        ci \in OptionOf(ConnectInfos)}
    \cup {MatchHost(id, rid) : id \in MatchIds, rid \in OptionOf(ReservationIds)}
    \cup {MatchJoin(id, ci) : id \in MatchIds, ci \in OptionOf(ConnectInfos)}

EditCommands ==
    {ScrimEdit(t, "DateTime", v) : t \in Times, v \in Times}
    \cup {ScrimEdit(t, "Maps", v) : t \in Times, v \in MapLists}
    \cup {ScrimEdit(t, "GameFormat", v) : t \in Times, v \in GameFormats}
    \cup {ScrimEdit(t, "Opponent", v) : t \in Times, v \in Opponents}
    \cup {ScrimEdit(t, "ReservationId", v) : t \in Times, v \in OptionOf(ReservationIds)}
    \cup {ScrimEdit(t, "ConnectInfo", v) : t \in Times, v \in OptionOf(ConnectInfos)}
    \cup {MatchEdit(RglMatch(id).match_date, "ReservationId", v) :
            id \in MatchIds, v \in OptionOf(ReservationIds)}
    \cup {MatchEdit(RglMatch(id).match_date, "ConnectInfo", v) :
            id \in MatchIds, v \in OptionOf(ConnectInfos)}

Commands ==
    HostJoinCommands \cup EditCommands \cup {Delete(t) : t \in Times} \cup {Refresh}

Next ==
    \/ \E p \in Procs, cmd \in Commands : started < MaxCommands /\ Start(p, cmd)
    \/ \E p \in Procs : EnsureTimeOpen(p)
    \/ \E p \in Procs : GetGame(p)
    \/ \E p \in Procs : GetReservation(p)
    \/ \E p \in Procs : EditReservation(p)
    \/ \E p \in Procs : CreateReservation(p)
    \/ \E p \in Procs : InsertGame(p)
    \/ \E p \in Procs : UpdateGame(p)
    \/ \E p \in Procs : DeleteGame(p)
    \/ \E p \in Procs : Publish(p)
    \/ \E p \in Procs : Commit(p)
    \/ \E m \in MessageIds : DeleteMessage(m)
    \/ \E r \in ReservationIds : Expire(r)

Spec == Init /\ [][Next]_vars

\* ------------------------------------- hosted games and their reservations

\* A team with a schedule channel that hosts scrims and matches and edits
\* the hosted scrims.
InitHosting ==
    /\ Init
    /\ IsSome(team_guild.schedule_channel_id)

HostingCommands ==
    {ScrimHost(t, o, ml, rid) :
        t \in Times, o \in Opponents, ml \in {<<"cp_process_f12">>},
        rid \in OptionOf(ReservationIds)}
    \cup {MatchHost(id, rid) : id \in MatchIds, rid \in OptionOf(ReservationIds)}
    \cup {ScrimEdit(t, "DateTime", v) : t \in Times, v \in Times}
    \cup {ScrimEdit(t, "Maps", v) : t \in Times, v \in MapLists}
    \cup {ScrimEdit(t, "GameFormat", v) : t \in Times, v \in GameFormats}

NextHosting ==
    \/ \E p \in Procs, cmd \in HostingCommands : started < MaxEdits /\ Start(p, cmd)
    \/ \E p \in Procs : EnsureTimeOpen(p)
    \/ \E p \in Procs : GetGame(p)
    \/ \E p \in Procs : GetReservation(p)
    \/ \E p \in Procs : EditReservation(p)
    \/ \E p \in Procs : CreateReservation(p)
    \/ \E p \in Procs : InsertGame(p)
    \/ \E p \in Procs : UpdateGame(p)
    \/ \E p \in Procs : Publish(p)
    \/ \E p \in Procs : Commit(p)

SpecHosting == InitHosting /\ [][NextHosting]_vars

\* --------------------------------------------- games on another's server

\* A team, with or without a booking key, that joins scrims and edits them.
InitJoining ==
    /\ games = {}
    /\ reservations = <<>>
    /\ cache = [r \in ReservationIds |-> None]
    /\ discord = [sent |-> 0, live |-> {}]
    /\ proc = [p \in Procs |-> Idle]
    /\ started = 0
    /\ codec = None
    /\ view = None
    /\ team_guild \in
        { [schedule_channel_id |-> Some(Channel), schedule_message_id |-> None,
           serveme_api_key |-> key, game_format |-> Some("Sixes")] :
          key \in {None, Some(ApiKey)} }

JoiningCommands ==
    {ScrimJoin(t, o, ml, ci) :
        t \in Times, o \in Opponents, ml \in {<<"cp_process_f12">>},
        ci \in OptionOf(ConnectInfos)}
    \cup {ScrimEdit(t, "DateTime", v) : t \in Times, v \in Times}
    \cup {ScrimEdit(t, "Maps", v) : t \in Times, v \in MapLists}
    \cup {ScrimEdit(t, "GameFormat", v) : t \in Times, v \in GameFormats}

NextJoining ==
    \/ \E p \in Procs, cmd \in JoiningCommands : started < MaxEdits /\ Start(p, cmd)
    \/ \E p \in Procs : EnsureTimeOpen(p)
    \/ \E p \in Procs : GetGame(p)
    \/ \E p \in Procs : InsertGame(p)
    \/ \E p \in Procs : UpdateGame(p)
    \/ \E p \in Procs : Publish(p)
    \/ \E p \in Procs : Commit(p)

SpecJoining == InitJoining /\ [][NextJoining]_vars

\* ------------------------------------------------- the team's configuration

ConfigSetScheduleChannel(channel) == [name |-> "config_set", channel |-> channel]
ConfigUnsetScheduleChannel == [name |-> "config_unset"]

IsConfig(cmd) == cmd.name \in {"config_set", "config_unset"}

\* The values a config command puts into the active model of the team's
\* row as it loaded it.
ConfigValues(guild, cmd) ==
    IF cmd.name = "config_set"
    THEN [guild EXCEPT !.schedule_channel_id = Some(cmd.channel)]
    ELSE [guild EXCEPT !.schedule_channel_id = None, !.schedule_message_id = None]

\* set_if_not_equals: the columns whose value differs from the loaded one
\* are Set, the others stay Unchanged.
ConfigColumns(guild, cmd) ==
    {c \in {"schedule_channel_id", "schedule_message_id"} :
        ConfigValues(guild, cmd)[c] /= guild[c]}

\* The team's row with the columns a transaction has written.
GuildWritten(guild, written) ==
    [c \in DOMAIN guild |-> IF c \in DOMAIN written THEN written[c] ELSE guild[c]]

\* ConfigCommand::run, Set and Unset of the schedule channel: the update of
\* the columns that are Set (it waits while another open transaction has
\* written the team's row), then the reply.
Configure(p) ==
    LET guild == Unwrap(proc[p].guild)
        cols == ConfigColumns(guild, proc[p].cmd)
        written == [c \in cols |-> ConfigValues(guild, proc[p].cmd)[c]]
    IN
    /\ proc[p].pc = "begun"
    /\ IsConfig(proc[p].cmd)
    /\ cols /= {} => ~GuildLockedByOther(p)
    /\ \E replied \in BOOLEAN :
          IF replied
          THEN Set(p, [pc |-> "configured",
                       guild |-> Some(GuildWritten(team_guild, written)),
                       config_write |-> IF cols = {} THEN None ELSE Some(written)])
          ELSE Set(p, [pc |-> "done", result |-> "DiscordError", guild |-> None,
                       config_write |-> None])
    /\ UNCHANGED <<games, team_guild, reservations, cache, discord, started,
                   codec, view>>

\* tx.commit() of a config command.
CommitConfig(p) ==
    /\ proc[p].pc = "configured"
    /\ \E committed \in BOOLEAN :
          IF committed
          THEN /\ team_guild' =
                     IF IsSome(proc[p].config_write)
                     THEN GuildWritten(team_guild, Unwrap(proc[p].config_write))
                     ELSE team_guild
               /\ Set(p, [pc |-> "done", result |-> "ok", guild |-> None,
                          config_write |-> None])
          ELSE /\ Set(p, [pc |-> "done", result |-> "DbErr", guild |-> None,
                          config_write |-> None])
               /\ UNCHANGED team_guild
    /\ UNCHANGED <<games, reservations, cache, discord, started, codec, view>>

ConfigCommands ==
    {ConfigSetScheduleChannel(Channel), ConfigUnsetScheduleChannel, Refresh}

NextConfig ==
    \/ \E p \in Procs, cmd \in ConfigCommands : started < MaxEdits /\ Start(p, cmd)
    \/ \E p \in Procs : Configure(p)
    \/ \E p \in Procs : CommitConfig(p)
    \/ \E p \in Procs : Publish(p)
    \/ \E p \in Procs : Commit(p)
    \/ \E m \in MessageIds : DeleteMessage(m)

SpecConfig == Init /\ [][NextConfig]_vars

\* ------------------------------------------- booking a server for a game

\* The map lists of the games a server is booked for: none, one whose first
\* map has a config for a sixes scrim and one whose first map has none.
BookedMapLists == {<<>>, <<"cp_process_f12">>, <<"pl_upward_f12">>}

\* A team hosts scrims and matches without naming a reservation.
BookingCommands ==
    {ScrimHost(t, o, ml, None) :
        t \in Times, o \in Opponents, ml \in BookedMapLists}
    \cup {MatchHost(id, None) : id \in MatchIds}

NextBooking ==
    \/ \E p \in Procs, cmd \in BookingCommands : started < MaxCommands /\ Start(p, cmd)
    \/ \E p \in Procs : EnsureTimeOpen(p)
    \/ \E p \in Procs : CreateReservation(p)
    \/ \E p \in Procs : InsertGame(p)
    \/ \E p \in Procs : Publish(p)
    \/ \E p \in Procs : Commit(p)

SpecBooking == InitHosting /\ [][NextBooking]_vars

\* ------------------------------------------------------------ the row codec

\* The game values of each type Game<D>.
CodecConnectTexts ==
    UserConnectTexts \cup
    { <<"connect", " ", "b", ";", "password", " ", "q">>,
      <<" ", "connect", " ", " ", "\"", "c", "\"", " ", ";", " ", "password", " ", "r">> }

GameServers ==
    {Undecided} \cup {Hosted(r) : r \in ReservationIds}
    \cup {Joined(ConnectInfoFromStr(text).value) : text \in CodecConnectTexts}
    \cup {Joined([ip_and_port |-> <<"a">>, password |-> <<"p">>])}

Details(D) ==
    (IF D = "Match" THEN {}
     ELSE {ScrimDetails(o, f, ml) : o \in Opponents, f \in GameFormats, ml \in MapLists})
    \cup (IF D = "Scrim" THEN {} ELSE {MatchDetails(id) : id \in MatchIds})

Games(D) ==
    {[guild_id |-> Guild, timestamp |-> t, server |-> server, details |-> details] :
        t \in Times, server \in GameServers, details \in Details(D)}

InitCodec ==
    /\ Init
    /\ IsSome(team_guild.schedule_channel_id)

\* A game of type Game<D> becomes the Model its active model holds.
Encode(D, game) ==
    /\ codec' = Some([type |-> D, game |-> game,
                      row |-> into_active_model(game).values,
                      decoded |-> None, reloaded |-> None])
    /\ UNCHANGED <<games, team_guild, reservations, cache, discord, proc, started, view>>

\* The Model is decoded into a Game<D>, as it is (decoded) and as the table
\* gives it back (reloaded).
Decode ==
    /\ IsSome(codec)
    /\ IsNone(Unwrap(codec).decoded)
    /\ LET c == Unwrap(codec)
           loaded == FromStored(ToStored(c.row))
       IN codec' = Some([c EXCEPT
                    !.decoded = Some(try_from(c.type, c.row)),
                    !.reloaded =
                        Some(IF loaded.ok THEN try_from(c.type, loaded.value)
                             ELSE loaded)])
    /\ UNCHANGED <<games, team_guild, reservations, cache, discord, proc, started, view>>

NextCodec ==
    \/ \E D \in {"Scrim", "Match", "ScrimOrMatch"} :
            \E game \in Games(D) : Encode(D, game)
    \/ Decode

SpecCodec == InitCodec /\ [][NextCodec]_vars

\* ------------------------------------------------------ the schedule embed

\* Start times as <<date, time of day>> in the bot's time zone.
ScheduleTimes == {<<d, h>> : d \in 1..NumDates, h \in 1..NumSlots}

date_et(timestamp) == timestamp[1]

Earlier(a, b) == a[1] < b[1] \/ (a[1] = b[1] /\ a[2] < b[2])

ScheduleServerValues ==
    {Undecided} \cup {Hosted(r) : r \in ReservationIds}
    \cup {Joined(c) : c \in ConnectInfos}

\* The upcoming games of a team: one per start time.
ScheduleGames(times, servers) ==
    {[timestamp |-> t, server |-> servers[t]] : t \in times}

\* order_by_asc(Timestamp).
RECURSIVE Ascending(_)
Ascending(rows) ==
    IF rows = {} THEN <<>>
    ELSE LET first == CHOOSE g \in rows :
                         \A h \in rows \ {g} : Earlier(g.timestamp, h.timestamp)
         IN <<first>> \o Ascending(rows \ {first})

\* limit(n).
Limit(seq, n) == SubSeq(seq, 1, IF Len(seq) < n THEN Len(seq) ELSE n)

\* A connect block that goes to the first game of a run.
IncludeConnectFirst(list, i) ==
    ~(i > 1 /\ list[i].server = list[i - 1].server)

\* include_connect of the i-th game of a date's list: the next game of the
\* list, if any, has another server.
IncludeConnect(list, i) ==
    ~(i < Len(list) /\ list[i].server = list[i + 1].server)

\* The entries of one date's field.
ScheduleEntries(list) ==
    [i \in 1..Len(list) |->
        [timestamp |-> list[i].timestamp, server |-> list[i].server,
         connect |-> IncludeConnect(list, i)]]

\* The fields of the embed: the games by date, in time order.
ScheduleFields(list) ==
    [d \in {date_et(list[i].timestamp) : i \in 1..Len(list)} |->
        ScheduleEntries(SelectSeq(list, LAMBDA g : date_et(g.timestamp) = d))]

\* schedule_embed of the upcoming games rows.
schedule_embed(rows) == ScheduleFields(Limit(Ascending(rows), ScheduleLimit))

\* The embed of the team's upcoming games, one at each of times.
ScheduleEmbed(times, servers) ==
    /\ view' = Some([rows |-> ScheduleGames(times, servers),
                     fields |-> schedule_embed(ScheduleGames(times, servers))])
    /\ UNCHANGED <<games, team_guild, reservations, cache, discord, proc,
                   started, codec>>

NextSchedule ==
    \E times \in SUBSET ScheduleTimes :
        \E servers \in [times -> ScheduleServerValues] :
            ScheduleEmbed(times, servers)

SpecSchedule == Init /\ [][NextSchedule]_vars

\* ------------------------------------------------------------ autocomplete

\* A query and an alias are texts: sequences of characters.
LowerLetters ==
    {"a", "b", "c", "d", "e", "f", "g", "h", "i", "j", "k", "l", "m",
     "n", "o", "p", "q", "r", "s", "t", "u", "v", "w", "x", "y", "z"}
Digits == {"0", "1", "2", "3", "4", "5", "6", "7", "8", "9"}

IsLetter(c) == c \in LowerLetters
IsDigit(c) == c \in Digits

\* The characters a user types here.
QueryChars == {"m", "t", "M", "9", "3", " "}

RECURSIVE TextsUpTo(_)
TextsUpTo(n) ==
    IF n = 0 THEN {<<>>}
    ELSE LET shorter == TextsUpTo(n - 1)
         IN shorter \cup {Append(s, c) : s \in shorter, c \in QueryChars}

Queries == TextsUpTo(MaxQuery)

\* str::to_ascii_lowercase, on the characters typed here.
to_ascii_lowercase(s) ==
    [i \in 1..Len(s) |-> CASE s[i] = "M" -> "m" [] s[i] = "T" -> "t" [] OTHER -> s[i]]

\* str::trim.
trim(s) ==
    LET kept == {i \in 1..Len(s) : ~IsWs(s[i])}
    IN IF kept = {} THEN <<>>
       ELSE SubSeq(s, CHOOSE i \in kept : \A j \in kept : i <= j,
                      CHOOSE i \in kept : \A j \in kept : i >= j)

\* str::starts_with: s starts with prefix.
IsPrefix(prefix, s) ==
    Len(prefix) <= Len(s) /\ SubSeq(s, 1, Len(prefix)) = prefix

\* The first index j >= i of s that holds no letter (Len(s) + 1 if none).
RECURSIVE SkipLetters(_, _)
SkipLetters(s, i) ==
    IF i <= Len(s) /\ IsLetter(s[i]) THEN SkipLetters(s, i + 1) ELSE i

\* split_datetime_query: the regular expression
\*   ^([a-z]+)?\s*(\d[a-z0-9]*)?$
\* on the trimmed, lowercased query; no match gives empty tokens.
split_datetime_query(text) ==
    LET q == to_ascii_lowercase(trim(text))
        i == SkipLetters(q, 1)
        j == SkipWs(q, i)
    IN IF j > Len(q)
       THEN [query |-> q, day |-> SubSeq(q, 1, i - 1), time |-> <<>>]
       ELSE IF /\ IsDigit(q[j])
               /\ \A k \in (j + 1)..Len(q) : IsLetter(q[k]) \/ IsDigit(q[k])
            THEN [query |-> q, day |-> SubSeq(q, 1, i - 1),
                  time |-> SubSeq(q, j, Len(q))]
            ELSE [query |-> q, day |-> <<>>, time |-> <<>>]

\* Dates are day numbers; Date::weekday.
weekday(date) ==
    CASE date % 7 = 0 -> <<"s", "u", "n", "d", "a", "y">>
      [] date % 7 = 1 -> <<"m", "o", "n", "d", "a", "y">>
      [] date % 7 = 2 -> <<"t", "u", "e", "s", "d", "a", "y">>
      [] date % 7 = 3 -> <<"w", "e", "d", "n", "e", "s", "d", "a", "y">>
      [] date % 7 = 4 -> <<"t", "h", "u", "r", "s", "d", "a", "y">>
      [] date % 7 = 5 -> <<"f", "r", "i", "d", "a", "y">>
      [] date % 7 = 6 -> <<"s", "a", "t", "u", "r", "d", "a", "y">>

\* Day aliases that leave out the names of today and tomorrow.
day_aliases_weekday_only(date, now_date) == {weekday(date)}

\* day_aliases: the names a day token may abbreviate.
day_aliases(date, now_date) ==
    CASE date = now_date /\ date /= now_date + 1 ->
            {weekday(date), <<"t", "o", "d", "a", "y">>, <<"t", "d", "y">>}
      [] date /= now_date /\ date = now_date + 1 ->
            {weekday(date), <<"t", "o", "m", "o", "r", "r", "o", "w">>,
             <<"t", "m", "r", "w">>}
      [] date /= now_date /\ date /= now_date + 1 -> {weekday(date)}
      [] OTHER -> {}

DigitChar(d) == <<"0", "1", "2", "3", "4", "5", "6", "7", "8", "9">>[d + 1]

\* The decimal text of a natural number.
RECURSIVE to_string(_)
to_string(n) ==
    IF n < 10 THEN <<DigitChar(n)>>
    ELSE Append(to_string(n \div 10), DigitChar(n % 10))

\* Aliases that call every hour a morning hour.
time_aliases_morning(time) ==
    LET hour_24 == time[1]
        minute == time[2]
        hour == IF hour_24 = 0 THEN 12
                ELSE IF hour_24 > 12 THEN hour_24 - 12 ELSE hour_24
        minutes == CASE minute = 0 -> {<<":", "0", "0">>, <<"0", "0">>, <<>>}
                     [] minute = 30 -> {<<":", "3", "0">>, <<"3", "0">>}
                     [] OTHER -> {}
    IN {to_string(hour) \o m \o sep \o half :
            m \in minutes, sep \in {<<" ">>, <<>>},
            half \in {<<"a", "m">>, <<"a", ".", "m", ".">>}}

\* time_aliases: the texts a time token may abbreviate; a time is
\* <<hour of 24, minute>>.
time_aliases(time) ==
    LET hour_24 == time[1]
        minute == time[2]
        hour == IF hour_24 = 0 THEN 12
                ELSE IF hour_24 > 12 THEN hour_24 - 12 ELSE hour_24
        meridiem == IF hour_24 >= 12 THEN {<<"p", "m">>, <<"p", ".", "m", ".">>}
                    ELSE {<<"a", "m">>, <<"a", ".", "m", ".">>}
        minutes == CASE minute = 0 -> {<<":", "0", "0">>, <<"0", "0">>, <<>>}
                     [] minute = 30 -> {<<":", "3", "0">>, <<"3", "0">>}
                     [] OTHER -> {}
    IN {to_string(hour) \o m \o sep \o half :
            m \in minutes, sep \in {<<" ">>, <<>>}, half \in meridiem}

\* Timestamps here are <<date, hour of 24, minute>>.
timestamp_date(timestamp) == timestamp[1]
timestamp_time(timestamp) == <<timestamp[2], timestamp[3]>>
unix_timestamp(timestamp) ==
    (timestamp[1] * 24 + timestamp[2]) * 60 + timestamp[3]

date_matches(timestamp, now, day_query) ==
    \E n \in day_aliases(timestamp_date(timestamp), timestamp_date(now)) :
        IsPrefix(day_query, n)

time_matches(timestamp, time_query) ==
    \E n \in time_aliases(timestamp_time(timestamp)) : IsPrefix(time_query, n)

\* A filter that passes a game on either match.
GameMatchesEither(timestamp, now, tokens) ==
    date_matches(timestamp, now, tokens.day) \/ time_matches(timestamp, tokens.time)

\* The filter of autocomplete_games.
GameMatches(timestamp, now, tokens) ==
    date_matches(timestamp, now, tokens.day) /\ time_matches(timestamp, tokens.time)

\* order_by_asc(Timestamp) of rows with distinct timestamps.
RECURSIVE OrderByAsc(_)
OrderByAsc(rows) ==
    IF rows = {} THEN <<>>
    ELSE LET first == CHOOSE g \in rows :
                         \A h \in rows :
                             unix_timestamp(g.timestamp) <= unix_timestamp(h.timestamp)
         IN <<first>> \o OrderByAsc(rows \ {first})

\* The upcoming games of kind D: those that started at most two hours ago.
UpcomingGames(D, rows, now) ==
    {g \in rows : /\ unix_timestamp(g.timestamp) >= unix_timestamp(now) - 120
                  /\ filter_expr(D, g)}

\* autocomplete_games::<D>: the start times offered, in order.
autocomplete_games(D, rows, now, text) ==
    LET tokens == split_datetime_query(text)
        found == SelectSeq(OrderByAsc(UpcomingGames(D, rows, now)),
                           LAMBDA g : GameMatches(g.timestamp, now, tokens))
        taken == Limit(found, AutocompleteLimit)
    IN [i \in 1..Len(taken) |-> taken[i].timestamp]

\* The scrims from today's midnight on, as (reservation, timestamp) tuples.
ReservationTuples(rows, now) ==
    {g \in rows :
        /\ unix_timestamp(g.timestamp) >= unix_timestamp(<<timestamp_date(now), 0, 0>>)
        /\ filter_expr("Scrim", g)}

\* The iteration order of a BTreeMap keyed by reservation id.
RECURSIVE SortedIds(_)
SortedIds(ids) ==
    IF ids = {} THEN <<>>
    ELSE LET least == CHOOSE i \in ids : \A j \in ids : i <= j
         IN <<least>> \o SortedIds(ids \ {least})

\* The filter of autocomplete_reservations on a group of start times.
GroupMatches(id, datetimes, now, tokens) ==
    \/ /\ \E t \in datetimes : date_matches(t, now, tokens.day)
       /\ \E t \in datetimes : time_matches(t, tokens.time)
    \/ IsPrefix(tokens.query, to_string(id))

\* autocomplete_reservations: the reservations offered, in order; decoding
\* a scrim without reservation as a (ReservationId, timestamp) tuple fails.
autocomplete_reservations(rows, now, text) ==
    LET tokens == split_datetime_query(text)
        data == ReservationTuples(rows, now)
    IN IF \E g \in data : IsNone(g.reservation_id)
       THEN [ok |-> FALSE, error |-> "DbErr"]
       ELSE LET datetimes(id) ==
                    {g.timestamp : g \in {h \in data : h.reservation_id = Some(id)}}
                found == SelectSeq(
                    SortedIds({Unwrap(g.reservation_id) : g \in data}),
                    LAMBDA id : GroupMatches(id, datetimes(id), now, tokens))
            IN [ok |-> TRUE, choices |-> Limit(found, AutocompleteLimit)]

\* The games of a team: some of four start times, and a day of scrims every
\* half hour.
AutocompleteTimes == {<<1, 21, 0>>, <<2, 15, 0>>, <<2, 21, 15>>, <<3, 21, 30>>}
AutocompleteNows == {<<1, 20, 0>>, <<2, 20, 0>>}
AutocompleteKinds ==
    {[rgl_match_id |-> None, reservation_id |-> Some(3)],
     [rgl_match_id |-> None, reservation_id |-> None],
     [rgl_match_id |-> Some(1), reservation_id |-> None]}

BusyDay ==
    {[timestamp |-> <<3, h, m>>, rgl_match_id |-> None,
      reservation_id |-> Some(100 + 2 * h + m \div 30)] :
        h \in 0..12, m \in {0, 30}}

AutocompleteRows(times, kinds, busy) ==
    {[timestamp |-> t, rgl_match_id |-> kinds[t].rgl_match_id,
      reservation_id |-> kinds[t].reservation_id] : t \in times}
    \cup (IF busy THEN BusyDay ELSE {})

Typing(rows, now, text) ==
    [op |-> "typing", rows |-> rows, now |-> now, query |-> text]

InitAutocomplete ==
    /\ games = {}
    /\ reservations = <<>>
    /\ cache = [r \in ReservationIds |-> None]
    /\ discord = [sent |-> 0, live |-> {}]
    /\ proc = [p \in Procs |-> Idle]
    /\ started = 0
    /\ codec = None
    /\ team_guild =
        [schedule_channel_id |-> None, schedule_message_id |-> None,
         serveme_api_key |-> Some(ApiKey), game_format |-> Some("Sixes")]
    /\ \E times \in SUBSET AutocompleteTimes, busy \in BOOLEAN :
          \E kinds \in [times -> AutocompleteKinds] :
              \E now \in AutocompleteNows, text \in Queries :
                  view = Some(Typing(AutocompleteRows(times, kinds, busy), now, text))

\* The last thing shown or asked is of the given sort.
ViewOf(op) == IsSome(view) /\ Unwrap(view).op = op

Typed == ViewOf("typing")

\* The autocomplete of a game option of type D.
AutocompleteGames(D) ==
    /\ Typed
    /\ view' = Some([op |-> "games", type |-> D, rows |-> Unwrap(view).rows,
                     now |-> Unwrap(view).now, query |-> Unwrap(view).query,
                     choices |-> autocomplete_games(D, Unwrap(view).rows,
                                                    Unwrap(view).now,
                                                    Unwrap(view).query)])
    /\ UNCHANGED <<games, team_guild, reservations, cache, discord, proc,
                   started, codec>>

\* The autocomplete of a reservation option.
AutocompleteReservations ==
    /\ Typed
    /\ view' = Some([op |-> "reservations", rows |-> Unwrap(view).rows,
                     now |-> Unwrap(view).now, query |-> Unwrap(view).query,
                     result |-> autocomplete_reservations(Unwrap(view).rows,
                                                          Unwrap(view).now,
                                                          Unwrap(view).query)])
    /\ UNCHANGED <<games, team_guild, reservations, cache, discord, proc,
                   started, codec>>

NextAutocomplete ==
    \/ \E D \in {"Scrim", "Match", "Game"} : AutocompleteGames(D)
    \/ AutocompleteReservations

SpecAutocomplete == InitAutocomplete /\ [][NextAutocomplete]_vars

\* The dates a day token is matched against: nine days, so that a weekday
\* comes round again, and the day tokens typed: the prefixes of the names
\* and the day tokens of the queries.
AliasDates == 1..(7 + NumDates)

DayTokens ==
    {SubSeq(n, 1, k) :
        n \in UNION {day_aliases(d, e) : d \in AliasDates, e \in {1, 2}},
        k \in 0..3}
    \cup {split_datetime_query(q).day : q \in Queries}

InitDayAliases ==
    /\ games = {}
    /\ reservations = <<>>
    /\ cache = [r \in ReservationIds |-> None]
    /\ discord = [sent |-> 0, live |-> {}]
    /\ proc = [p \in Procs |-> Idle]
    /\ started = 0
    /\ codec = None
    /\ team_guild =
        [schedule_channel_id |-> None, schedule_message_id |-> None,
         serveme_api_key |-> Some(ApiKey), game_format |-> Some("Sixes")]
    /\ \E date \in AliasDates, now_date \in AliasDates, token \in DayTokens :
          view = Some([op |-> "day", date |-> date, now_date |-> now_date,
                       day_query |-> token])

\* A date is matched against a day token: its aliases, and whether one of
\* them starts with the token.
DayMatch ==
    /\ ViewOf("day")
    /\ view' = Some([op |-> "day_aliases", date |-> Unwrap(view).date,
                     now_date |-> Unwrap(view).now_date,
                     day_query |-> Unwrap(view).day_query,
                     aliases |-> day_aliases(Unwrap(view).date,
                                             Unwrap(view).now_date),
                     matches |-> \E n \in day_aliases(Unwrap(view).date,
                                                      Unwrap(view).now_date) :
                                    IsPrefix(Unwrap(view).day_query, n)])
    /\ UNCHANGED <<games, team_guild, reservations, cache, discord, proc,
                   started, codec>>

NextDayAliases == DayMatch

SpecDayAliases == InitDayAliases /\ [][NextDayAliases]_vars

\* ------------------------------------------------------ map autocomplete

\* A map name is a text over upper and lower case characters.
MapChars == {"a", "b", "A"}

\* str::to_lowercase, on the characters of map names.
to_lowercase(s) ==
    [i \in 1..Len(s) |-> CASE s[i] = "A" -> "a" [] s[i] = "B" -> "b" [] OTHER -> s[i]]

\* A test that asks for the text at the start.
StartsWithText(s, sub) == IsPrefix(sub, s)

\* str::contains: sub occurs in s.
Contains(s, sub) ==
    \E i \in 0..(Len(s) - Len(sub)) : SubSeq(s, i + 1, i + Len(sub)) = sub

\* Iterator::flat_map over a sequence of sequences.
RECURSIVE Flatten(_)
Flatten(seqs) ==
    IF seqs = <<>> THEN <<>> ELSE Head(seqs) \o Flatten(Tail(seqs))

\* The catalogs: the official maps of the format in the order of the
\* BTreeMap's keys (upper case sorts first), and the other maps of the
\* server provider.
Catalogs ==
    {[official |-> << <<"A">>, <<"B">> >>, unofficial |-> << <<"a", "b">> >>],
     [official |-> << <<"A">>, <<"A", "b">>, <<"B", "a">>, <<"a">>,
                      <<"a", "B">>, <<"b", "A">> >>,
      unofficial |-> << <<"b">>, <<"a", "a">> >>]}

\* AllMaps::iter.
AllMapsIter(all_maps) == all_maps.official \o all_maps.unofficial

\* The official maps that contain the text of a slot, whatever the case.
PerMapChoices(all_maps, slot) ==
    SelectSeq(all_maps.official,
              LAMBDA m : Contains(to_lowercase(m), to_lowercase(slot)))

\* inner of official_autocomplete_choices: the lists that start with map
\* and go on with one choice of every child.
RECURSIVE inner(_, _)
inner(map, children) ==
    IF children = <<>> THEN << <<map>> >>
    ELSE Flatten([c \in 1..Len(Head(children)) |->
            LET rest == inner(Head(children)[c], Tail(children))
            IN [r \in 1..Len(rest) |-> <<map>> \o rest[r]]])

official_autocomplete_choices(all_maps, typed) ==
    LET per_map_choices ==
            [i \in 1..Len(typed) |-> PerMapChoices(all_maps, typed[i])]
    IN IF per_map_choices = <<>> THEN <<>>
       ELSE Flatten([c \in 1..Len(Head(per_map_choices)) |->
                inner(Head(per_map_choices)[c], Tail(per_map_choices))])

unofficial_autocomplete_choices(all_maps, typed) ==
    LET last_map == typed[Len(typed)]
        found == SelectSeq(all_maps.unofficial,
                           LAMBDA m : Contains(to_lowercase(m), to_lowercase(last_map)))
    IN [i \in 1..Len(found) |-> SubSeq(typed, 1, Len(typed) - 1) \o <<found[i]>>]

\* AllMaps::autocomplete_choices: the map lists offered, in order.
autocomplete_choices(all_maps, typed, trailing_sep) ==
    LET every == AllMapsIter(all_maps) IN
    IF typed = <<>>
    THEN Limit([i \in 1..Len(every) |-> <<every[i]>>], AutocompleteLimit)
    ELSE LET choices == official_autocomplete_choices(all_maps, typed)
                            \o unofficial_autocomplete_choices(all_maps, typed)
         IN IF trailing_sep
            THEN Limit(Flatten([c \in 1..Len(choices) |->
                          [m \in 1..Len(every) |-> choices[c] \o <<every[m]>>]]),
                       AutocompleteLimit)
            ELSE Limit(choices, AutocompleteLimit)

\* The texts of a slot and the typed map lists.
RECURSIVE MapTextsUpTo(_)
MapTextsUpTo(n) ==
    IF n = 0 THEN {<<>>}
    ELSE LET shorter == MapTextsUpTo(n - 1)
         IN shorter \cup {Append(s, c) : s \in shorter, c \in MapChars}

SlotTexts == MapTextsUpTo(MaxMapText) \ {<<>>}

TypedMapLists == UNION {[1..n -> SlotTexts] : n \in 0..MaxMaps}

InitMaps ==
    /\ games = {}
    /\ reservations = <<>>
    /\ cache = [r \in ReservationIds |-> None]
    /\ discord = [sent |-> 0, live |-> {}]
    /\ proc = [p \in Procs |-> Idle]
    /\ started = 0
    /\ codec = None
    /\ team_guild =
        [schedule_channel_id |-> None, schedule_message_id |-> None,
         serveme_api_key |-> Some(ApiKey), game_format |-> Some("Sixes")]
    /\ \E all_maps \in Catalogs, typed \in TypedMapLists, trailing_sep \in BOOLEAN :
          view = Some([op |-> "typing_maps", all_maps |-> all_maps, typed |-> typed,
                       trailing_sep |-> trailing_sep])

\* The autocomplete of a map list.
AutocompleteMaps ==
    /\ ViewOf("typing_maps")
    /\ view' = Some([op |-> "maps", all_maps |-> Unwrap(view).all_maps,
                     typed |-> Unwrap(view).typed,
                     trailing_sep |-> Unwrap(view).trailing_sep,
                     official |-> official_autocomplete_choices(
                                     Unwrap(view).all_maps, Unwrap(view).typed),
                     choices |-> autocomplete_choices(
                                     Unwrap(view).all_maps, Unwrap(view).typed,
                                     Unwrap(view).trailing_sep)])
    /\ UNCHANGED <<games, team_guild, reservations, cache, discord, proc,
                   started, codec>>

NextMaps == AutocompleteMaps

SpecMaps == InitMaps /\ [][NextMaps]_vars

\* --------------------------------------------------------- time aliases

\* TIME_CHOICES: the candidate times, every half hour of the day.
TIME_CHOICES == {<<hour, minute>> : hour \in 0..23, minute \in {0, 30}}

\* The time tokens typed: the starts of the aliases of the candidate times.
TimeTokens ==
    UNION {{SubSeq(n, 1, k) : k \in 0..Len(n)} :
              n \in UNION {time_aliases(t) : t \in TIME_CHOICES}}

InitTimeAliases ==
    /\ games = {}
    /\ reservations = <<>>
    /\ cache = [r \in ReservationIds |-> None]
    /\ discord = [sent |-> 0, live |-> {}]
    /\ proc = [p \in Procs |-> Idle]
    /\ started = 0
    /\ codec = None
    /\ team_guild =
        [schedule_channel_id |-> None, schedule_message_id |-> None,
         serveme_api_key |-> Some(ApiKey), game_format |-> Some("Sixes")]
    /\ \E time \in TIME_CHOICES, token \in TimeTokens :
          view = Some([op |-> "time", time |-> time, time_query |-> token])

\* A candidate time is matched against a time token.
TimeMatch ==
    /\ ViewOf("time")
    /\ view' = Some([op |-> "time_aliases", time |-> Unwrap(view).time,
                     time_query |-> Unwrap(view).time_query,
                     matches |-> \E n \in time_aliases(Unwrap(view).time) :
                                    IsPrefix(Unwrap(view).time_query, n)])
    /\ UNCHANGED <<games, team_guild, reservations, cache, discord, proc,
                   started, codec>>

NextTimeAliases == TimeMatch

SpecTimeAliases == InitTimeAliases /\ [][NextTimeAliases]_vars

\* ---------------------------------------------------- time-slot suggestions

\* day_choices: today and the seven days after it, in order.
day_choices(now) == [i \in 1..8 |-> timestamp_date(now) + i - 1]

DEFAULT_TIME_CHOICES == <<<<20, 30>>, <<21, 30>>, <<22, 30>>>>

\* TIME_CHOICES in the order of the vector.
TimeChoicesInOrder == [i \in 1..48 |-> <<(i - 1) \div 2, ((i - 1) % 2) * 30>>]

\* OffsetDateTime::new_et of a date and a time.
new_et(date, time) == <<date, time[1], time[2]>>

\* A slot filter that looks at the clock alone.
SlotOpenAnyTaken(datetime, taken, min_timestamp) ==
    unix_timestamp(datetime) >= min_timestamp

\* The filter of the suggested slots: not taken, and not earlier than half
\* an hour ago.
SlotOpen(datetime, taken, min_timestamp) ==
    datetime \notin taken /\ unix_timestamp(datetime) >= min_timestamp

\* The start times of a day whose aliases start with the time token.
TimesOfDay(date, time_query) ==
    LET matching == SelectSeq(TimeChoicesInOrder,
                        LAMBDA time : \E n \in time_aliases(time) : IsPrefix(time_query, n))
    IN [i \in 1..Len(matching) |-> new_et(date, matching[i])]

DefaultTimesOfDay(date) ==
    [i \in 1..Len(DEFAULT_TIME_CHOICES) |-> new_et(date, DEFAULT_TIME_CHOICES[i])]

\* autocomplete_times: the slots offered, in order.
autocomplete_times(rows, now, text) ==
    LET tokens == split_datetime_query(text)
        dates == SelectSeq(day_choices(now),
                     LAMBDA date : \E n \in day_aliases(date, timestamp_date(now)) :
                                      IsPrefix(tokens.day, n))
        taken_datetimes ==
            {g.timestamp : g \in {h \in rows :
                unix_timestamp(h.timestamp) >=
                    unix_timestamp(<<timestamp_date(now), 0, 0>>)}}
        min_timestamp == unix_timestamp(now) - 30
        candidates ==
            IF Len(dates) = 0 THEN <<>>
            ELSE IF Len(dates) = 1 THEN TimesOfDay(dates[1], tokens.time)
            ELSE IF tokens.time = <<>>
            THEN Flatten([i \in 1..Len(dates) |-> DefaultTimesOfDay(dates[i])])
            ELSE Flatten([i \in 1..Len(dates) |-> TimesOfDay(dates[i], tokens.time)])
    IN Limit(SelectSeq(candidates,
                 LAMBDA datetime : SlotOpen(datetime, taken_datetimes, min_timestamp)),
             AutocompleteLimit)

\* The games a team may have when it asks for a slot: yesterday, earlier
\* today, later today, tomorrow.
SlotTimes == {<<0, 21, 0>>, <<1, 9, 0>>, <<1, 21, 30>>, <<1, 22, 30>>, <<2, 20, 30>>}
SlotNows == {<<1, 20, 45>>, <<1, 21, 0>>}

SlotRows(times) ==
    {[guild_id |-> Guild, timestamp |-> t] : t \in times}

InitSlots ==
    /\ games = {}
    /\ reservations = <<>>
    /\ cache = [r \in ReservationIds |-> None]
    /\ discord = [sent |-> 0, live |-> {}]
    /\ proc = [p \in Procs |-> Idle]
    /\ started = 0
    /\ codec = None
    /\ team_guild =
        [schedule_channel_id |-> None, schedule_message_id |-> None,
         serveme_api_key |-> Some(ApiKey), game_format |-> Some("Sixes")]
    /\ \E times \in SUBSET SlotTimes, now \in SlotNows, text \in Queries :
          view = Some([op |-> "slot", rows |-> SlotRows(times), now |-> now,
                       query |-> text])

\* The autocomplete of a date-time option of a host or join command.
AutocompleteSlots ==
    /\ ViewOf("slot")
    /\ view' = Some([op |-> "slots", rows |-> Unwrap(view).rows,
                     now |-> Unwrap(view).now, query |-> Unwrap(view).query,
                     choices |-> autocomplete_times(Unwrap(view).rows,
                                                    Unwrap(view).now,
                                                    Unwrap(view).query)])
    /\ UNCHANGED <<games, team_guild, reservations, cache, discord, proc,
                   started, codec>>

NextSlots == AutocompleteSlots

SpecSlots == InitSlots /\ [][NextSlots]_vars

\* ------------------------------------------------------- decoding a row

\* The rows of the game table, whatever columns are present.
Models ==
    {[guild_id |-> Guild, timestamp |-> 4,
      reservation_id |-> rid, connect_info |-> ci, opponent_user_id |-> opp,
      game_format |-> fmt, maps |-> ml, rgl_match_id |-> mid] :
        rid \in OptionOf(ReservationIds), ci \in OptionOf(ConnectInfos),
        opp \in OptionOf(Opponents), fmt \in OptionOf(GameFormats),
        ml \in OptionOf(MapLists), mid \in OptionOf(MatchIds)}

InitDecode ==
    /\ games = {}
    /\ reservations = <<>>
    /\ cache = [r \in ReservationIds |-> None]
    /\ discord = [sent |-> 0, live |-> {}]
    /\ proc = [p \in Procs |-> Idle]
    /\ started = 0
    /\ codec = None
    /\ team_guild =
        [schedule_channel_id |-> None, schedule_message_id |-> None,
         serveme_api_key |-> Some(ApiKey), game_format |-> Some("Sixes")]
    /\ \E D \in {"Scrim", "Match", "ScrimOrMatch"}, model \in Models :
          view = Some([op |-> "row", type |-> D, model |-> model])

\* A row is decoded into a Game<D>.
TryFrom ==
    /\ ViewOf("row")
    /\ view' = Some([op |-> "game", type |-> Unwrap(view).type,
                     model |-> Unwrap(view).model,
                     result |-> try_from(Unwrap(view).type, Unwrap(view).model)])
    /\ UNCHANGED <<games, team_guild, reservations, cache, discord, proc,
                   started, codec>>

NextDecode == TryFrom

SpecDecode == InitDecode /\ [][NextDecode]_vars

\* ------------------------------------------- the reservation of a game

\* A reservation_id that takes the first reservation for a game that is
\* not hosted.
reservation_id_first(server) ==
    IF is_hosted(server) THEN [ok |-> TRUE, value |-> server.reservation_id]
    ELSE [ok |-> TRUE, value |-> 1]

\* GameServer::reservation_id.
reservation_id(server) ==
    IF is_hosted(server) THEN [ok |-> TRUE, value |-> server.reservation_id]
    ELSE [ok |-> FALSE, error |-> "GameNotHosted"]

\* Game::get_reservation: the result, the requests sent and the cache
\* after it; answered tells whether the service answers.
get_reservation(game, answered) ==
    LET id == reservation_id(game.server)
    IN IF ~id.ok THEN [result |-> id, requests |-> <<>>, cache |-> cache]
       ELSE IF IsSome(cache[id.value])
       THEN [result |-> [ok |-> TRUE, value |-> Unwrap(cache[id.value])],
             requests |-> <<>>, cache |-> cache]
       ELSE IF answered /\ Exists(id.value)
       THEN [result |-> [ok |-> TRUE, value |-> Response(reservations, id.value)],
             requests |-> <<"get">>,
             cache |-> [cache EXCEPT ![id.value] =
                           Some(Response(reservations, id.value))]]
       ELSE [result |-> [ok |-> FALSE, error |-> "ServemeError"],
             requests |-> <<"get">>, cache |-> cache]

\* Game::edit_reservation: the result, the requests sent, and the cache
\* and the reservations after it.
edit_reservation(game, answered, edited) ==
    LET id == reservation_id(game.server)
    IN IF ~id.ok
       THEN [result |-> id, requests |-> <<>>, cache |-> cache,
             reservations |-> reservations]
       ELSE LET got == get_reservation(game, answered)
            IN IF ~got.result.ok
               THEN [result |-> got.result, requests |-> got.requests,
                     cache |-> got.cache, reservations |-> reservations]
               ELSE LET req == EditReservationRequest(game, got.result.value)
                        new == Patched(reservations[id.value], req)
                    IN IF req = DefaultEditReservationRequest
                       THEN [result |-> got.result, requests |-> got.requests,
                             cache |-> got.cache, reservations |-> reservations]
                       ELSE IF edited /\ Exists(id.value)
                       THEN [result |-> [ok |-> TRUE,
                                         value |-> [id |-> id.value] @@ new],
                             requests |-> Append(got.requests, "edit"),
                             cache |-> [got.cache EXCEPT ![id.value] =
                                           Some([id |-> id.value] @@ new)],
                             reservations |->
                                 [reservations EXCEPT ![id.value] = new]]
                       ELSE [result |-> [ok |-> FALSE, error |-> "ServemeError"],
                             requests |-> Append(got.requests, "edit"),
                             cache |-> got.cache, reservations |-> reservations]

\* The reservations the service holds when a game is asked: none, or the
\* one of a scrim at the earlier time.
AskedReservations ==
    {<<>>,
     <<CreateReservationRequest(
          [guild_id |-> Guild, timestamp |-> 4, server |-> Undecided,
           details |-> ScrimDetails(CHOOSE o \in Opponents : TRUE, "Sixes",
                                    <<"cp_process_f12">>)])>>}

InitReservationOf ==
    /\ games = {}
    /\ reservations \in AskedReservations
    /\ cache = [r \in ReservationIds |-> None]
    /\ discord = [sent |-> 0, live |-> {}]
    /\ proc = [p \in Procs |-> Idle]
    /\ started = 0
    /\ codec = None
    /\ team_guild =
        [schedule_channel_id |-> None, schedule_message_id |-> None,
         serveme_api_key |-> Some(ApiKey), game_format |-> Some("Sixes")]
    /\ \E game \in Games("ScrimOrMatch") :
          view = Some([op |-> "game", game |-> game])

\* game.server.reservation_id()
ReservationIdOf ==
    /\ ViewOf("game")
    /\ view' = Some([op |-> "reservation_id", game |-> Unwrap(view).game,
                     result |-> reservation_id(Unwrap(view).game.server),
                     requests |-> <<>>])
    /\ UNCHANGED <<games, team_guild, reservations, cache, discord, proc,
                   started, codec>>

\* game.get_reservation(api_key)
GetReservationOf ==
    /\ ViewOf("game")
    /\ \E answered \in BOOLEAN :
          LET got == get_reservation(Unwrap(view).game, answered)
          IN /\ view' = Some([op |-> "get_reservation", game |-> Unwrap(view).game,
                              result |-> got.result, requests |-> got.requests])
             /\ cache' = got.cache
    /\ UNCHANGED <<games, team_guild, reservations, discord, proc, started, codec>>

\* game.edit_reservation(api_key)
EditReservationOf ==
    /\ ViewOf("game")
    /\ \E answered \in BOOLEAN, edited \in BOOLEAN :
          LET done == edit_reservation(Unwrap(view).game, answered, edited)
          IN /\ view' = Some([op |-> "edit_reservation", game |-> Unwrap(view).game,
                              result |-> done.result, requests |-> done.requests])
             /\ cache' = done.cache
             /\ reservations' = done.reservations
    /\ UNCHANGED <<games, team_guild, discord, proc, started, codec>>

NextReservationOf ==
    \/ ReservationIdOf
    \/ GetReservationOf
    \/ EditReservationOf

SpecReservationOf == InitReservationOf /\ [][NextReservationOf]_vars

\* ------------------------------------------- connect info through its text

\* ConnectInfo values as a caller may supply them: an address and a password
\* without semicolon, double quote or surrounding blanks.
AddressTexts ==
    UNION {[1..n -> {"a", "b", ":"}] : n \in 1..MaxConnectText}

PasswordTexts ==
    UNION {[1..n -> {"p", "q"}] : n \in 0..MaxConnectText}

InitConnectInfo ==
    /\ games = {}
    /\ reservations = <<>>
    /\ cache = [r \in ReservationIds |-> None]
    /\ discord = [sent |-> 0, live |-> {}]
    /\ proc = [p \in Procs |-> Idle]
    /\ started = 0
    /\ codec = None
    /\ team_guild =
        [schedule_channel_id |-> None, schedule_message_id |-> None,
         serveme_api_key |-> Some(ApiKey), game_format |-> Some("Sixes")]
    /\ \E a \in AddressTexts, pw \in PasswordTexts :
          view = Some([op |-> "connect_info",
                       supplied |-> [ip_and_port |-> a, password |-> pw]])

\* Value::from(connect_info), then ConnectInfo::try_get_by on the column.
StoreAndRead ==
    /\ ViewOf("connect_info")
    /\ LET text == ConnectInfoToString(Unwrap(view).supplied)
       IN view' = Some([op |-> "try_get_by", supplied |-> Unwrap(view).supplied,
                        text |-> text, result |-> ConnectInfoFromStr(text)])
    /\ UNCHANGED <<games, team_guild, reservations, cache, discord, proc,
                   started, codec>>

NextConnectInfo == StoreAndRead

SpecConnectInfo == InitConnectInfo /\ [][NextConnectInfo]_vars

\* --------------------------------------------- the booking client's cache

\* The requests of the client (serveme.rs), each with its await points: the
\* service's answer arrives in one step and the client's write to CACHE
\* follows in a later one, so requests of other tasks come in between.
\* view holds what the requests have returned so far: written[r] is the
\* response of the last create or edit of r that returned within the time
\* to live, gone the reservations the service has deleted, deleted those
\* whose delete request has returned.

ClientGet(r) == [name |-> "client_get", reservation_id |-> r]
ClientCreate(req) == [name |-> "client_create", create |-> req]
ClientEdit(r, req) == [name |-> "client_edit", reservation_id |-> r, edit |-> req]
ClientDelete(r) == [name |-> "client_delete", reservation_id |-> r]

ClientReservation == [starts_at |-> 3, ends_at |-> 8, first_map |-> None,
                      server_config_id |-> None]

ClientEditRequests ==
    {[DefaultEditReservationRequest EXCEPT !.ends_at = Some(e)] : e \in {9, 10}}

ClientIdle(p) == proc[p].pc = "idle"

ClientBegin(p, cmd) ==
    [Idle EXCEPT !.cmd = cmd]

ClientKnows(field, r, value) ==
    view' = Some([Unwrap(view) EXCEPT ![field] = [@ EXCEPT ![r] = value]])

InitClient ==
    /\ games = {}
    /\ reservations = <<ClientReservation>>
    /\ cache = [r \in ReservationIds |-> None]
    /\ discord = [sent |-> 0, live |-> {}]
    /\ proc = [p \in Procs |-> Idle]
    /\ started = 0
    /\ codec = None
    /\ team_guild =
        [schedule_channel_id |-> None, schedule_message_id |-> None,
         serveme_api_key |-> Some(ApiKey), game_format |-> Some("Sixes")]
    /\ view = Some([op |-> "client",
                    written |-> [r \in ReservationIds |-> None],
                    gone |-> [r \in ReservationIds |-> FALSE],
                    deleted |-> [r \in ReservationIds |-> FALSE]])

\* GetReservationRequest::send, the entry is in CACHE: try_get_with returns
\* it and the future is never polled.
GetCached(p, r) ==
    /\ ClientIdle(p)
    /\ started < MaxEdits
    /\ IsSome(cache[r])
    /\ started' = started + 1
    /\ proc' = [proc EXCEPT ![p] =
                  [ClientBegin(p, ClientGet(r)) EXCEPT
                      !.pc = "done", !.reservation = cache[r]]]
    /\ UNCHANGED <<games, team_guild, reservations, cache, discord, codec, view>>

\* GetReservationRequest::send, no entry: the future sends the request and
\* the service answers with the reservation as it is (an error once deleted).
GetSend(p, r) ==
    /\ ClientIdle(p)
    /\ started < MaxEdits
    /\ IsNone(cache[r])
    /\ started' = started + 1
    /\ IF Exists(r) /\ ~Unwrap(view).gone[r]
       THEN proc' = [proc EXCEPT ![p] =
                       [ClientBegin(p, ClientGet(r)) EXCEPT
                           !.pc = "getting",
                           !.reservation = Some(Response(reservations, r)),
                           !.requests = <<"get">>]]
       ELSE proc' = [proc EXCEPT ![p] =
                       [ClientBegin(p, ClientGet(r)) EXCEPT
                           !.pc = "done", !.result = "ServemeError",
                           !.requests = <<"get">>]]
    /\ UNCHANGED <<games, team_guild, reservations, cache, discord, codec, view>>

\* try_get_with stores the output of the future once it resolves.
GetStore(p) ==
    /\ proc[p].pc = "getting"
    /\ cache' = [cache EXCEPT ![proc[p].cmd.reservation_id] = proc[p].reservation]
    /\ Set(p, [pc |-> "done"])
    /\ UNCHANGED <<games, team_guild, reservations, discord, started, codec, view>>

\* CreateReservationRequest::send, up to the service's answer.
CreateSend(p, req) ==
    LET r == Len(reservations) + 1
    IN
    /\ ClientIdle(p)
    /\ started < MaxEdits
    /\ started' = started + 1
    /\ IF r <= MaxReservations
       THEN /\ reservations' = Append(reservations, req)
            /\ proc' = [proc EXCEPT ![p] =
                          [ClientBegin(p, ClientCreate(req)) EXCEPT
                              !.pc = "creating",
                              !.reservation = Some([id |-> r] @@ req),
                              !.requests = <<"create">>]]
       ELSE /\ UNCHANGED reservations
            /\ proc' = [proc EXCEPT ![p] =
                          [ClientBegin(p, ClientCreate(req)) EXCEPT
                              !.pc = "done", !.result = "ServemeError",
                              !.requests = <<"create">>]]
    /\ UNCHANGED <<games, team_guild, cache, discord, codec, view>>

\* EditReservationRequest::send, up to the service's answer.
EditSend(p, r, req) ==
    /\ ClientIdle(p)
    /\ started < MaxEdits
    /\ started' = started + 1
    /\ IF Exists(r) /\ ~Unwrap(view).gone[r]
       THEN LET new == Patched(reservations[r], req)
            IN /\ reservations' = [reservations EXCEPT ![r] = new]
               /\ proc' = [proc EXCEPT ![p] =
                             [ClientBegin(p, ClientEdit(r, req)) EXCEPT
                                 !.pc = "editing",
                                 !.reservation = Some([id |-> r] @@ new),
                                 !.requests = <<"edit">>]]
       ELSE /\ UNCHANGED reservations
            /\ proc' = [proc EXCEPT ![p] =
                          [ClientBegin(p, ClientEdit(r, req)) EXCEPT
                              !.pc = "done", !.result = "ServemeError",
                              !.requests = <<"edit">>]]
    /\ UNCHANGED <<games, team_guild, cache, discord, codec, view>>

\* CACHE.insert(reservation.id, ..) of a create or an edit, and its return.
InsertResponse(p) ==
    LET r == Unwrap(proc[p].reservation).id
    IN
    /\ proc[p].pc \in {"creating", "editing"}
    /\ cache' = [cache EXCEPT ![r] = proc[p].reservation]
    /\ ClientKnows("written", r, proc[p].reservation)
    /\ Set(p, [pc |-> "done"])
    /\ UNCHANGED <<games, team_guild, reservations, discord, started, codec>>

\* DeleteReservationRequest::send, up to the service's answer.
DeleteSend(p, r) ==
    /\ ClientIdle(p)
    /\ started < MaxEdits
    /\ started' = started + 1
    /\ IF Exists(r) /\ ~Unwrap(view).gone[r]
       THEN /\ ClientKnows("gone", r, TRUE)
            /\ proc' = [proc EXCEPT ![p] =
                          [ClientBegin(p, ClientDelete(r)) EXCEPT
                              !.pc = "deleting", !.requests = <<"delete">>]]
       ELSE /\ UNCHANGED view
            /\ proc' = [proc EXCEPT ![p] =
                          [ClientBegin(p, ClientDelete(r)) EXCEPT
                              !.pc = "done", !.result = "ServemeError",
                              !.requests = <<"delete">>]]
    /\ UNCHANGED <<games, team_guild, reservations, cache, discord, codec>>

\* CACHE.invalidate(&reservation_id) of a delete, and its return.
Invalidate(p) ==
    LET r == proc[p].cmd.reservation_id
    IN
    /\ proc[p].pc = "deleting"
    /\ cache' = [cache EXCEPT ![r] = None]
    /\ view' = Some([Unwrap(view) EXCEPT !.deleted = [@ EXCEPT ![r] = TRUE],
                                         !.written = [@ EXCEPT ![r] = None]])
    /\ Set(p, [pc |-> "done"])
    /\ UNCHANGED <<games, team_guild, reservations, discord, started, codec>>

\* Ten seconds after the entry of r was last written: the entry is dropped,
\* and the create or edit that wrote before it is as old or older.
ExpireEntry(r) ==
    /\ IsSome(cache[r])
    /\ cache' = [cache EXCEPT ![r] = None]
    /\ ClientKnows("written", r, None)
    /\ UNCHANGED <<games, team_guild, reservations, discord, proc, started, codec>>

\* The task that sent the request ends.
Return(p) ==
    /\ proc[p].pc = "done"
    /\ Set(p, Idle)
    /\ UNCHANGED <<games, team_guild, reservations, cache, discord, started,
                   codec, view>>

NextClient ==
    \/ \E p \in Procs, r \in ReservationIds : GetCached(p, r)
    \/ \E p \in Procs, r \in ReservationIds : GetSend(p, r)
    \/ \E p \in Procs : GetStore(p)
    \/ \E p \in Procs : CreateSend(p, ClientReservation)
    \/ \E p \in Procs, r \in ReservationIds, req \in ClientEditRequests :
          EditSend(p, r, req)
    \/ \E p \in Procs : InsertResponse(p)
    \/ \E p \in Procs, r \in ReservationIds : DeleteSend(p, r)
    \/ \E p \in Procs : Invalidate(p)
    \/ \E r \in ReservationIds : ExpireEntry(r)
    \/ \E p \in Procs : Return(p)

SpecClient == InitClient /\ [][NextClient]_vars

\* ------------------------------------------------------------- properties

Finished(p) == proc[p].pc = "done"
Succeeded(p) == Finished(p) /\ proc[p].result = "ok"
SlotErrors == {"TimeSlotTaken", "UniqueViolation"}

\* p and q ran a host or join command each for the same start time, the two
\* overlapped, and both have ended.
RaceOver(p, q) ==
    /\ p /= q
    /\ Finished(p) /\ Finished(q)
    /\ IsInsert(proc[p].cmd) /\ IsInsert(proc[q].cmd)
    /\ TimeOf(proc[p].cmd) = TimeOf(proc[q].cmd)
    /\ q \in proc[p].raced /\ p \in proc[q].raced

C2_OneRowPerStart ==
    \A r1, r2 \in games :
        (r1.guild_id = r2.guild_id /\ r1.timestamp = r2.timestamp) => r1 = r2

\* C2, witness: a row stands at a start time for which a later insert was
\* refused.
C2_Witness ==
    \E p \in Procs :
        /\ Finished(p)
        /\ IsInsert(proc[p].cmd)
        /\ proc[p].result = "UniqueViolation"
        /\ Cardinality(RowsAt(games, TimeOf(proc[p].cmd))) = 1

\* C3: no committed row has both a reservation id and connect info, and no
\* command ever ends on a row that has both (InvalidGameDetails).
C3_OneServerAssignment ==
    /\ \A r \in games : ~(IsSome(r.reservation_id) /\ IsSome(r.connect_info))
    /\ \A p \in Procs : proc[p].result /= "InvalidGameDetails"

\* C3, witness: a hosted game was given connect info and is now joined.
C3_Witness ==
    \E p \in Procs :
        /\ Succeeded(p)
        /\ IsEdit(proc[p].cmd)
        /\ proc[p].cmd.what = "ConnectInfo"
        /\ IsSome(proc[p].cmd.connect_info)
        /\ Len(reservations) > 0
        /\ \E r \in RowsAt(games, proc[p].cmd.date_time) :
              IsSome(r.connect_info) /\ IsNone(r.reservation_id)

\* C4: a step that ends a command with an error leaves the committed rows
\* and the stored schedule message id as they are, and nothing but a
\* successful commit ever changes them.
C4_FailureCommitsNothing ==
    [][/\ \A p \in Procs :
            (proc[p].pc /= "done" /\ proc'[p].pc = "done" /\ proc'[p].result /= "ok")
                => (games' = games /\ team_guild' = team_guild)
       /\ (games' /= games \/ team_guild' /= team_guild)
            => \E p \in Procs :
                  /\ proc[p].pc = "refreshed"
                  /\ proc'[p].pc = "done"
                  /\ proc'[p].result = "ok"]_vars

\* C4, witness: a host or join failed at the commit, after its insert and
\* after a new schedule message was sent; no row and no message id is stored.
C4_Witness ==
    \E p \in Procs :
        /\ Finished(p)
        /\ IsInsert(proc[p].cmd)
        /\ proc[p].result = "DbErr"
        /\ discord.live /= {}
        /\ games = {}
        /\ IsNone(team_guild.schedule_message_id)

\* C5: no step increases the start or decreases the end of a reservation.
C5_WindowOnlyGrows ==
    [][\A r \in 1..Len(reservations) :
          /\ reservations'[r].starts_at <= reservations[r].starts_at
          /\ reservations'[r].ends_at >= reservations[r].ends_at]_vars

\* The first map and config the catalog derives for a game.
Derived(game) ==
    server_config(maps(game.details), kind(game.details), game_format(game.details))

\* The reservation r carries the first map and config sc.
Carries(rs, r, sc) == rs[r].first_map = sc[1] /\ rs[r].server_config_id = sc[2]

\* What C6 (as amended) says of a step of p that ends edit_reservation of the
\* scrim game with success, the reservation having been fetched as fetched.
MapSentWhenNotLater(game, fetched, sc) ==
    LET r == game.server.reservation_id
    IN IF start_end_times(game)[1] <= fetched.starts_at /\ IsSome(sc[2])
       THEN Carries(reservations', r, sc)
       ELSE /\ reservations'[r].first_map = reservations[r].first_map
            /\ reservations'[r].server_config_id = reservations[r].server_config_id

\* C6 (as amended): an edit of a hosted scrim leaves the reservation with
\* the first map and config derived from the game's current map list and
\* format when the game's window starts at or before the start of the
\* reservation as fetched and the first map has a config; every other
\* successful edit leaves the reservation's first map and config as they were.
C6_MapSentWhenNotLater ==
    [][\A p \in Procs :
          (/\ proc[p].pc = "got"
           /\ proc'[p].pc = "reserved"
           /\ kind(Unwrap(proc[p].game).details) = "Scrim")
          => MapSentWhenNotLater(Unwrap(proc[p].game), Unwrap(proc[p].reservation),
                                 Derived(Unwrap(proc[p].game)))]_vars

\* C6, witness: a map edit of a hosted scrim was sent to the service and the
\* reservation now carries the map and config of the new map list, which
\* differ from those of the old.
C6_Witness ==
    \E p \in Procs :
        /\ proc[p].pc = "reserved"
        /\ proc[p].cmd.name = "scrim_edit"
        /\ proc[p].cmd.what = "Maps"
        /\ proc[p].requests = <<"edit">>
        /\ IsSome(Derived(Unwrap(proc[p].game))[2])
        /\ Derived(Unwrap(proc[p].game)) /= Derived(NewGame(ScrimHost(4, 1, <<"cp_process_f12">>, None), team_guild))
        /\ Carries(reservations, Unwrap(proc[p].game).server.reservation_id,
                   Derived(Unwrap(proc[p].game)))

\* The committed row is a hosted scrim whose first map has a config, and its
\* reservation carries that map and config.
ScrimConsistent(g) ==
    (IsSome(g.reservation_id) /\ IsNone(g.rgl_match_id)) =>
        LET sc == server_config(Unwrap(g.maps), "Scrim", Unwrap(g.game_format))
        IN IsSome(sc[2]) => Carries(reservations, Unwrap(g.reservation_id), sc)

\* C6 as stated: after a successful time or map edit of a hosted scrim the
\* reservation carries the first map and config derived from the game.
C6_ReservationFollowsGame ==
    \A p \in Procs :
        (/\ Succeeded(p)
         /\ proc[p].cmd.name = "scrim_edit"
         /\ proc[p].cmd.what \in {"Maps", "DateTime"})
        => \A g \in RowsAt(games, proc[p].cmd.date_time) : ScrimConsistent(g)

\* C7: the slot check of a host or join command for start time t ends the
\* command with TimeSlotTaken exactly when the table holds a row at t, of
\* either kind, and it changes neither the rows nor the team's row.
C7_SlotCheck ==
    [][\A p \in Procs :
          (/\ proc[p].pc = "begun"
           /\ IsInsert(proc[p].cmd)
           /\ proc'[p].pc /= "begun"
           /\ ~(proc'[p].pc = "done" /\ proc'[p].result = "RglError"))
          => /\ (proc'[p].pc = "done" /\ proc'[p].result = "TimeSlotTaken")
                    <=> (RowsAt(games, TimeOf(proc[p].cmd)) /= {})
             /\ games' = games
             /\ team_guild' = team_guild]_vars

\* C7, witness: a scrim was refused the slot that a match holds.
C7_Witness ==
    \E p \in Procs :
        /\ Finished(p)
        /\ proc[p].cmd.name \in {"scrim_host", "scrim_join"}
        /\ proc[p].result = "TimeSlotTaken"
        /\ \E r \in RowsAt(games, TimeOf(proc[p].cmd)) : IsSome(r.rgl_match_id)

\* C8: a game encoded by into_active_model and decoded by try_from is the
\* game again: the same server assignment with the same payload and the same
\* details with the same payload.
C8_RoundTrip ==
    (IsSome(codec) /\ IsSome(Unwrap(codec).decoded)) =>
        /\ Unwrap(Unwrap(codec).decoded).ok
        /\ Unwrap(Unwrap(codec).decoded).value = Unwrap(codec).game

\* C8, witness: a joined match with a password went through the codec as a
\* Game<ScrimOrMatch> and came back joined.
C8_Witness ==
    /\ IsSome(codec)
    /\ IsSome(Unwrap(codec).decoded)
    /\ Unwrap(codec).type = "ScrimOrMatch"
    /\ kind(Unwrap(codec).game.details) = "Match"
    /\ is_joined(Unwrap(codec).game.server)
    /\ Unwrap(codec).game.server.connect_info.password /= <<>>
    /\ Unwrap(Unwrap(codec).decoded).ok
    /\ is_joined(Unwrap(Unwrap(codec).decoded).value.server)

Count(seq, x) == Cardinality({i \in DOMAIN seq : seq[i] = x})

HostsAnew(cmd) == IsHost(cmd) /\ IsNone(cmd.reservation_id)

\* The row at start time t is hosted on reservation id and holds no connect
\* info.
HostedOn(rows, t, id) ==
    /\ RowsAt(rows, t) /= {}
    /\ \A g \in RowsAt(rows, t) :
          g.reservation_id = Some(id) /\ IsNone(g.connect_info)

\* C9: a host command given no reservation id never sends more than one
\* find-servers and one create-reservation request; when it commits it has
\* sent exactly one find-servers request and then exactly one
\* create-reservation request, and the committed row at its start time is
\* Hosted on the id the service returned.
C9_HostBooksOnce ==
    [][\A p \in Procs :
          /\ HostsAnew(proc'[p].cmd) =>
                /\ Count(proc'[p].requests, "find") <= 1
                /\ Count(proc'[p].requests, "create") <= 1
          /\ (/\ HostsAnew(proc[p].cmd)
              /\ proc[p].pc = "refreshed"
              /\ proc'[p].pc = "done"
              /\ proc'[p].result = "ok")
             => /\ SubSeq(proc[p].requests, 1, 2) = <<"find", "create">>
                /\ Count(proc[p].requests, "find") = 1
                /\ Count(proc[p].requests, "create") = 1
                /\ Unwrap(proc[p].reservation).id \in 1..Len(reservations)
                /\ HostedOn(games', TimeOf(proc[p].cmd),
                            Unwrap(proc[p].reservation).id)]_vars

\* C9, witness: a host command given no reservation id has committed after
\* one find-servers and one create-reservation request, and the row at its
\* start time is hosted on a reservation of the service.
C9_Witness ==
    \E p \in Procs :
        /\ Succeeded(p)
        /\ HostsAnew(proc[p].cmd)
        /\ SubSeq(proc[p].requests, 1, 2) = <<"find", "create">>
        /\ \E id \in 1..Len(reservations) :
              HostedOn(games, TimeOf(proc[p].cmd), id)

\* What C10 says of a step in which refresh_schedule of p succeeds, the
\* stored message id read by p's transaction being message.
PublishedOnce(p, message) ==
    IF IsSome(message) /\ Unwrap(message) \in discord.live
    THEN /\ discord' = discord
         /\ IsNone(proc'[p].guild_write)
         /\ Unwrap(proc'[p].guild).schedule_message_id = message
         /\ proc'[p].published = <<[op |-> "edit", id |-> Unwrap(message)]>>
    ELSE /\ discord'.sent = discord.sent + 1
         /\ discord'.live = discord.live \cup {discord'.sent}
         /\ discord'.sent \notin discord.live
         /\ proc'[p].guild_write = Some(discord'.sent)
         /\ Unwrap(proc'[p].guild).schedule_message_id = Some(discord'.sent)
         /\ proc'[p].published = <<[op |-> "send", id |-> discord'.sent]>>

\* C10: a successful refresh_schedule publishes exactly once.  With a
\* stored message id whose edit succeeds, no message is sent and the stored
\* id stays; with no stored id, or a stored id whose message no longer
\* exists, exactly one new message is sent and its id is stored with the
\* team, which the commit makes the team's schedule message id.
C10_PublishesOnce ==
    [][\A p \in Procs :
          /\ (proc[p].pc = "written" /\ proc'[p].pc = "refreshed")
                => PublishedOnce(p, Unwrap(proc[p].guild).schedule_message_id)
          /\ (proc[p].pc = "refreshed" /\ proc'[p].pc = "done"
                /\ proc'[p].result = "ok")
                => IF IsSome(proc[p].guild_write)
                   THEN team_guild'.schedule_message_id = proc[p].guild_write
                   ELSE team_guild' = team_guild]_vars

\* C10, witness: the stored message had been deleted, and the refresh sent
\* one new message whose id waits for the commit.
C10_Witness ==
    \E p \in Procs :
        /\ proc[p].pc = "refreshed"
        /\ team_guild.schedule_message_id = Some(1)
        /\ 1 \notin discord.live
        /\ proc[p].published = <<[op |-> "send", id |-> 2]>>
        /\ proc[p].guild_write = Some(2)
        /\ discord.live = {2}

\* What C11 says of a step in which p leaves refresh_schedule, the stored
\* message id read by p's transaction being message.
OnlyGoneIsSwallowed(p, message) ==
    /\ (proc'[p].pc = "done" /\ proc'[p].result = "DiscordError")
          => /\ discord' = discord
             /\ team_guild' = team_guild
    /\ discord' /= discord
          => /\ Unwrap(message) \notin discord.live
             /\ proc'[p].pc = "refreshed"

\* C11: with a stored schedule message id, a refresh whose edit fails with
\* an error other than 'message no longer exists' ends with that error,
\* sends no message and leaves the stored id; a new message is sent only
\* when the stored message no longer exists.
C11_OnlyGoneIsSwallowed ==
    [][\A p \in Procs :
          (/\ proc[p].pc = "written"
           /\ proc'[p].pc /= "written"
           /\ IsSome(Unwrap(proc[p].guild).schedule_message_id))
          => OnlyGoneIsSwallowed(p, Unwrap(proc[p].guild).schedule_message_id)]_vars

\* C11, witness: one process ran two commands in a row; the first stored
\* message 1, which still exists, and the second ended with the error of
\* the edit: no second message was sent and the stored id is still 1.
C11_Witness ==
    \E p \in Procs :
        /\ started = 2
        /\ \A q \in Procs \ {p} : proc[q].pc = "idle"
        /\ Finished(p)
        /\ proc[p].result = "DiscordError"
        /\ team_guild.schedule_message_id = Some(1)
        /\ discord = [sent |-> 1, live |-> {1}]

\* The reservations of the rows still exist in the service rs.
StillBooked(rows, rs) ==
    \A g \in rows :
        (IsSome(g.reservation_id) /\ Unwrap(g.reservation_id) \in 1..Len(reservations))
            => /\ Unwrap(g.reservation_id) \in 1..Len(rs)
               /\ rs[Unwrap(g.reservation_id)] = reservations[Unwrap(g.reservation_id)]

\* What C12 says of a step of the delete command of p for start time t.
DeleteStep(p, t) ==
    /\ reservations' = reservations
    /\ \A i \in DOMAIN proc'[p].requests : proc'[p].requests[i] = "get"
    /\ (proc[p].pc = "begun" /\ RowsAt(games, t) = {})
          => /\ proc'[p].pc = "done"
             /\ proc'[p].result = "GameNotFound"
             /\ UNCHANGED <<games, team_guild, discord, cache>>
    /\ (proc[p].pc = "refreshed" /\ proc'[p].result = "ok")
          => /\ games' = games \ RowsAt(games, t)
             /\ StillBooked(RowsAt(games, t), reservations')

\* C12: a delete command sends the booking service nothing but reads and
\* changes no reservation; when it commits, the row of its start time is
\* gone, no other row is touched and the reservation of the row still
\* exists; with no row at its start time it ends with GameNotFound and
\* changes nothing.
C12_DeleteKeepsReservation ==
    [][\A p \in Procs :
          (/\ proc[p].cmd.name = "delete"
           /\ proc'[p].cmd = proc[p].cmd
           /\ proc'[p] /= proc[p])
          => DeleteStep(p, proc[p].cmd.date_time)]_vars

\* C12, witness: a hosted game was deleted (the embed of the deleted game
\* read its reservation); no row is left and the reservation exists.
C12_Witness ==
    \E p \in Procs :
        /\ Succeeded(p)
        /\ proc[p].cmd.name = "delete"
        /\ proc[p].requests = <<"get">>
        /\ games = {}
        /\ Len(reservations) = 1

EditsServer(cmd) == IsEdit(cmd) /\ cmd.what \in {"ReservationId", "ConnectInfo"}

\* C13: when the update of a server-assignment edit (reservation id or
\* connect info, scrim or match) succeeds, the row it wrote, read back,
\* has the server assignment the edit computed.
C13_RereadYieldsComputed ==
    [][\A p \in Procs :
          (/\ proc[p].pc = "reserved"
           /\ EditsServer(proc[p].cmd)
           /\ proc'[p].pc = "written")
          => Unwrap(proc'[p].game).server = Unwrap(proc[p].game).server]_vars

\* What C14 says of the commit of a date-time edit from start time t to u.
Moved(t, u) ==
    /\ RowsAt(games', t) = {}
    /\ \A g \in RowsAt(games, t) : [g EXCEPT !.timestamp = u] \in games'
    /\ \A g \in games : g.timestamp /= t => g \in games'

\* C14: when a scrim date-time edit from T to another time T' commits, the
\* rows hold the game of T at T' with its details and server, hold no game
\* at T, and hold every other game as it was.
C14_DateTimeEditMoves ==
    [][\A p \in Procs :
          (/\ proc[p].pc = "refreshed"
           /\ proc[p].cmd.name = "scrim_edit"
           /\ proc[p].cmd.what = "DateTime"
           /\ proc[p].cmd.new_date_time /= proc[p].cmd.date_time
           /\ proc'[p].pc = "done"
           /\ proc'[p].result = "ok")
          => Moved(proc[p].cmd.date_time, proc[p].cmd.new_date_time)]_vars

\* The game after g on g's date: none later on that date is earlier.
NextOfDate(rows, g) ==
    {h \in rows :
        /\ h.timestamp[1] = g.timestamp[1]
        /\ h.timestamp[2] > g.timestamp[2]
        /\ \A k \in rows :
              (k.timestamp[1] = g.timestamp[1] /\ k.timestamp[2] > g.timestamp[2])
                  => k.timestamp[2] >= h.timestamp[2]}

\* g is the last game of a run of games of one date with equal servers.
EndsRun(rows, g) == \A h \in NextOfDate(rows, g) : h.server /= g.server

\* C15: the schedule shows every game once, under its date and in time
\* order, and a game carries a connect block exactly when the next game of
\* its date has another server or its date has no later game.
C15_BlockEndsRun ==
    IsSome(view) =>
        /\ \A d \in DOMAIN Unwrap(view).fields :
              \A i \in DOMAIN Unwrap(view).fields[d] :
                  /\ Unwrap(view).fields[d][i].timestamp[1] = d
                  /\ i > 1 => Unwrap(view).fields[d][i - 1].timestamp[2]
                                  < Unwrap(view).fields[d][i].timestamp[2]
                  /\ Unwrap(view).fields[d][i].connect
                        <=> EndsRun(Unwrap(view).rows,
                                    [timestamp |-> Unwrap(view).fields[d][i].timestamp,
                                     server |-> Unwrap(view).fields[d][i].server])
        /\ \A g \in Unwrap(view).rows :
              \E i \in DOMAIN Unwrap(view).fields[g.timestamp[1]] :
                  /\ Unwrap(view).fields[g.timestamp[1]][i].timestamp = g.timestamp
                  /\ Unwrap(view).fields[g.timestamp[1]][i].server = g.server

\* C15, witness: two games of one date on one server, the first without a
\* block and the second with one, and a game of the next date on the same
\* server: the run ends with the date.
C15_Witness ==
    /\ IsSome(view)
    /\ DOMAIN Unwrap(view).fields = {1, 2}
    /\ Len(Unwrap(view).fields[1]) = 2
    /\ ~Unwrap(view).fields[1][1].connect
    /\ Unwrap(view).fields[1][2].connect
    /\ Unwrap(view).fields[2][1].server = Unwrap(view).fields[1][2].server
    /\ is_hosted(Unwrap(view).fields[1][2].server)

\* The upcoming games of the requested kind, from the rows.
Candidates(v) ==
    {g \in v.rows : /\ unix_timestamp(g.timestamp) >= unix_timestamp(v.now) - 120
                    /\ CASE v.type = "Scrim" -> IsNone(g.rgl_match_id)
                         [] v.type = "Match" -> IsSome(g.rgl_match_id)
                         [] OTHER -> TRUE}

\* The candidate whose day and whose time the tokens of the query match.
BothMatch(v, g) ==
    /\ date_matches(g.timestamp, v.now, split_datetime_query(v.query).day)
    /\ time_matches(g.timestamp, split_datetime_query(v.query).time)

\* C16: the games offered are candidates whose day matches the day token
\* and whose time matches the time token, at most 25 of them, in ascending
\* order of start time, and no matching candidate earlier than an offered
\* one, or with fewer than 25 offered, is left out.
C16_GamesOffered ==
    ViewOf("games") =>
        /\ Len(Unwrap(view).choices) <= AutocompleteLimit
        /\ \A i \in DOMAIN Unwrap(view).choices :
              /\ \E g \in Candidates(Unwrap(view)) :
                    /\ g.timestamp = Unwrap(view).choices[i]
                    /\ BothMatch(Unwrap(view), g)
              /\ i > 1 => unix_timestamp(Unwrap(view).choices[i - 1])
                              < unix_timestamp(Unwrap(view).choices[i])
        /\ \A g \in Candidates(Unwrap(view)) :
              (/\ BothMatch(Unwrap(view), g)
               /\ \A i \in DOMAIN Unwrap(view).choices :
                     Unwrap(view).choices[i] /= g.timestamp)
              => /\ Len(Unwrap(view).choices) = AutocompleteLimit
                 /\ \A i \in DOMAIN Unwrap(view).choices :
                       unix_timestamp(Unwrap(view).choices[i])
                           < unix_timestamp(g.timestamp)

\* C16, witness: a day token and a time token are typed, a game is offered,
\* and upcoming games of the kind are left out: one that matches the day
\* only and one that matches the time only.
C16_Witness ==
    /\ ViewOf("games")
    /\ split_datetime_query(Unwrap(view).query).day /= <<>>
    /\ split_datetime_query(Unwrap(view).query).time /= <<>>
    /\ Len(Unwrap(view).choices) = 1
    /\ \E g, h \in Candidates(Unwrap(view)) :
          /\ date_matches(g.timestamp, Unwrap(view).now,
                          split_datetime_query(Unwrap(view).query).day)
          /\ ~time_matches(g.timestamp, split_datetime_query(Unwrap(view).query).time)
          /\ time_matches(h.timestamp, split_datetime_query(Unwrap(view).query).time)
          /\ ~date_matches(h.timestamp, Unwrap(view).now,
                           split_datetime_query(Unwrap(view).query).day)

\* The cap of 25 cuts the offer short.
C16_WitnessCapped ==
    /\ ViewOf("games")
    /\ Len(Unwrap(view).choices) = AutocompleteLimit
    /\ \E g \in Candidates(Unwrap(view)) :
          /\ BothMatch(Unwrap(view), g)
          /\ \A i \in DOMAIN Unwrap(view).choices :
                Unwrap(view).choices[i] /= g.timestamp

Offered(v, g) == \E i \in DOMAIN v.choices : v.choices[i] = g.timestamp

\* C17: a query with empty day and time tokens (an empty query, or one
\* that does not fit the grammar) offers every upcoming game of the kind,
\* whatever its start time, up to the cap of 25.
C17_EmptyTokensOfferAll ==
    (/\ ViewOf("games")
     /\ split_datetime_query(Unwrap(view).query).day = <<>>
     /\ split_datetime_query(Unwrap(view).query).time = <<>>)
    => \A g \in Candidates(Unwrap(view)) :
          \/ Offered(Unwrap(view), g)
          \/ Len(Unwrap(view).choices) = AutocompleteLimit

\* The groups of the scrims from today's midnight on, by reservation.
Members(v, id) ==
    {g.timestamp : g \in {h \in v.rows :
        /\ h.timestamp[1] >= v.now[1]
        /\ IsNone(h.rgl_match_id)
        /\ h.reservation_id = Some(id)}}

GroupIds(v) == {id \in {Unwrap(g.reservation_id) : g \in {h \in v.rows : IsSome(h.reservation_id)}} : Members(v, id) /= {}}

\* C18: a group is offered exactly when one member game matches both the
\* day token and the time token, or the decimal text of the reservation id
\* starts with the query (no cap reached).
C18_OneMemberMatchesBoth ==
    (/\ ViewOf("reservations")
     /\ Unwrap(view).result.ok
     /\ Len(Unwrap(view).result.choices) < AutocompleteLimit)
    => \A id \in GroupIds(Unwrap(view)) :
          (\E i \in DOMAIN Unwrap(view).result.choices :
                Unwrap(view).result.choices[i] = id)
          <=> \/ \E t \in Members(Unwrap(view), id) :
                    /\ date_matches(t, Unwrap(view).now,
                                    split_datetime_query(Unwrap(view).query).day)
                    /\ time_matches(t, split_datetime_query(Unwrap(view).query).time)
              \/ IsPrefix(split_datetime_query(Unwrap(view).query).query,
                          to_string(id))

\* The names the claim gives a date.
NamesOf(date, now_date) ==
    IF date = now_date
    THEN {weekday(date), <<"t", "o", "d", "a", "y">>, <<"t", "d", "y">>}
    ELSE IF date = now_date + 1
    THEN {weekday(date), <<"t", "o", "m", "o", "r", "r", "o", "w">>,
          <<"t", "m", "r", "w">>}
    ELSE {weekday(date)}

\* C20: the aliases of a date are its weekday name with today and tdy for
\* the current date, with tomorrow and tmrw for the next date, and alone
\* for any other date; a day token matches the date exactly when it is a
\* prefix of one of these.
C20_DayAliases ==
    ViewOf("day_aliases") =>
        /\ Unwrap(view).aliases = NamesOf(Unwrap(view).date, Unwrap(view).now_date)
        /\ Unwrap(view).matches
              <=> \E n \in NamesOf(Unwrap(view).date, Unwrap(view).now_date) :
                     /\ Len(Unwrap(view).day_query) <= Len(n)
                     /\ \A i \in 1..Len(Unwrap(view).day_query) :
                           Unwrap(view).day_query[i] = n[i]

\* C20, witness: tomorrow is a wednesday and the token tm matches it.
C20_Witness ==
    /\ ViewOf("day_aliases")
    /\ Unwrap(view).date = Unwrap(view).now_date + 1
    /\ weekday(Unwrap(view).date)[1] = "w"
    /\ Unwrap(view).day_query = <<"t", "m">>
    /\ Unwrap(view).matches

\* The official maps whose name holds the text of the slot, case aside.
Candidate(v, m, slot) ==
    /\ \E i \in DOMAIN v.all_maps.official : v.all_maps.official[i] = m
    /\ \E i \in 1..Len(m) : \E j \in i..Len(m) :
          /\ j - i + 1 = Len(slot)
          /\ \A n \in 1..Len(slot) :
                to_lowercase(<<m[i + n - 1]>>) = to_lowercase(<<slot[n]>>)

\* C19: for a typed list of k slots the official completions are, each
\* once, the lists of k official maps whose i-th map holds the text of the
\* i-th slot, case aside (none if a slot has no such map); without a
\* trailing separator the list offered starts with them, and it never has
\* more than 25 entries.  With the official maps A and B and the text a
\* typed they are the one list A.
C19_OfficialProduct ==
    (ViewOf("maps") /\ Unwrap(view).typed /= <<>>) =>
        /\ \A i \in DOMAIN Unwrap(view).official :
              /\ Len(Unwrap(view).official[i]) = Len(Unwrap(view).typed)
              /\ \A n \in DOMAIN Unwrap(view).typed :
                    Candidate(Unwrap(view), Unwrap(view).official[i][n],
                              Unwrap(view).typed[n])
              /\ \A j \in DOMAIN Unwrap(view).official :
                    Unwrap(view).official[i] = Unwrap(view).official[j] => i = j
        /\ \A list \in [DOMAIN Unwrap(view).typed ->
                            {Unwrap(view).all_maps.official[i] :
                                i \in DOMAIN Unwrap(view).all_maps.official}] :
              (\A n \in DOMAIN Unwrap(view).typed :
                    Candidate(Unwrap(view), list[n], Unwrap(view).typed[n]))
              => \E i \in DOMAIN Unwrap(view).official :
                    \A n \in DOMAIN Unwrap(view).typed :
                        Unwrap(view).official[i][n] = list[n]
        /\ Len(Unwrap(view).choices) <= AutocompleteLimit
        /\ ~Unwrap(view).trailing_sep =>
              \A i \in DOMAIN Unwrap(view).choices :
                  i <= Len(Unwrap(view).official)
                      => Unwrap(view).choices[i] = Unwrap(view).official[i]
        /\ (/\ Unwrap(view).all_maps.official = << <<"A">>, <<"B">> >>
            /\ Unwrap(view).typed = << <<"a">> >>)
           => Unwrap(view).official = << << <<"A">> >> >>

\* C19, witness: two slots typed without trailing separator, more than 25
\* official completions, 25 offered.
C19_Witness ==
    /\ ViewOf("maps")
    /\ Len(Unwrap(view).typed) = 2
    /\ ~Unwrap(view).trailing_sep
    /\ Len(Unwrap(view).official) > AutocompleteLimit
    /\ Len(Unwrap(view).choices) = AutocompleteLimit

\* The maps A and B, a typed: the map A is offered, and no other official
\* map.
C19_WitnessExample ==
    /\ ViewOf("maps")
    /\ Unwrap(view).all_maps.official = << <<"A">>, <<"B">> >>
    /\ Unwrap(view).typed = << <<"a">> >>
    /\ ~Unwrap(view).trailing_sep
    /\ Unwrap(view).choices = << << <<"A">> >>, << <<"a", "b">> >> >>

\* The 12-hour renderings of a candidate time: the hour of the 12-hour
\* clock, the minutes after a colon or run on (or left out on the hour), a
\* blank or none, and am or pm with or without full stops.
Renderings(time) ==
    LET hour == ((time[1] + 11) % 12) + 1
        tens == DigitChar(time[2] \div 10)
        units == DigitChar(time[2] % 10)
        half == IF time[1] < 12 THEN "a" ELSE "p"
    IN {to_string(hour) \o colon \o mins \o blank \o mer :
            colon \in {<<":">>, <<>>},
            mins \in {<<tens, units>>} \cup (IF time[2] = 0 THEN {<<>>} ELSE {}),
            blank \in {<<" ">>, <<>>},
            mer \in {<<half, "m">>, <<half, ".", "m", ".">>}}
       \ {to_string(hour) \o <<":">> \o blank \o mer :
            blank \in {<<" ">>, <<>>},
            mer \in {<<half, "m">>, <<half, ".", "m", ".">>}}

EndsIn(token, half) ==
    \/ /\ Len(token) >= 2
       /\ SubSeq(token, Len(token) - 1, Len(token)) = <<half, "m">>
    \/ /\ Len(token) >= 4
       /\ SubSeq(token, Len(token) - 3, Len(token)) = <<half, ".", "m", ".">>

\* C21: a time token matches a candidate time exactly when it is the start
\* of one of the time's 12-hour renderings: 9:30 pm is matched by 930,
\* 9:30pm, 9:30 p.m. and 9 and not by 10; no morning time is matched by a
\* token that ends in pm and no afternoon time by one that ends in am.
C21_TimeTokenMatches ==
    ViewOf("time_aliases") =>
        /\ Unwrap(view).matches
              <=> \E n \in Renderings(Unwrap(view).time) :
                     /\ Len(Unwrap(view).time_query) <= Len(n)
                     /\ \A i \in 1..Len(Unwrap(view).time_query) :
                           Unwrap(view).time_query[i] = n[i]
        /\ (/\ Unwrap(view).time = <<21, 30>>
            /\ Unwrap(view).time_query \in
                  {<<"9", "3", "0">>, <<"9", ":", "3", "0", "p", "m">>,
                   <<"9", ":", "3", "0", " ", "p", ".", "m", ".">>, <<"9">>})
           => Unwrap(view).matches
        /\ (Unwrap(view).time = <<21, 30>> /\ Unwrap(view).time_query = <<"1", "0">>)
           => ~Unwrap(view).matches
        /\ (Unwrap(view).time[1] < 12 /\ EndsIn(Unwrap(view).time_query, "p"))
           => ~Unwrap(view).matches
        /\ (Unwrap(view).time[1] >= 12 /\ EndsIn(Unwrap(view).time_query, "a"))
           => ~Unwrap(view).matches

\* C21, witness: 9:30 pm is matched by the token 9:30 p.m.
C21_Witness ==
    /\ ViewOf("time_aliases")
    /\ Unwrap(view).time = <<21, 30>>
    /\ Unwrap(view).time_query = <<"9", ":", "3", "0", " ", "p", ".", "m", ".">>
    /\ Unwrap(view).matches

\* 9:30 in the morning is not matched by the token 9:30pm.
C21_WitnessMorning ==
    /\ ViewOf("time_aliases")
    /\ Unwrap(view).time = <<9, 30>>
    /\ Unwrap(view).time_query = <<"9", ":", "3", "0", "p", "m">>
    /\ ~Unwrap(view).matches

\* The window of the game lies strictly inside that of the reservation.
StrictlyInside(game, reservation) ==
    /\ start_end_times(game)[1] > reservation.starts_at
    /\ start_end_times(game)[2] < reservation.ends_at

\* C22: when the window of a hosted game lies strictly inside the window
\* of its reservation as fetched, edit_reservation sends nothing to the
\* service, the reservation stays as it is at the service and in the
\* cache, and the command goes on with the reservation as fetched.
C22_InsideWindowSendsNothing ==
    [][\A p \in Procs :
          (/\ proc[p].pc = "got"
           /\ StrictlyInside(Unwrap(proc[p].game), Unwrap(proc[p].reservation))
           /\ proc'[p].pc /= "got")
          => /\ proc'[p].pc = "reserved"
             /\ proc'[p].requests = proc[p].requests
             /\ proc'[p].reservation = proc[p].reservation
             /\ reservations' = reservations
             /\ cache' = cache]_vars

\* C22, witness: a scrim with a map that has a config was hosted on the
\* reservation of a match; its window lies strictly inside the
\* reservation's, and the command went on without an edit request.
C22_Witness ==
    \E p \in Procs :
        /\ proc[p].pc = "reserved"
        /\ proc[p].cmd.name = "scrim_host"
        /\ IsSome(proc[p].cmd.reservation_id)
        /\ IsSome(Derived(Unwrap(proc[p].game))[2])
        /\ StrictlyInside(Unwrap(proc[p].game), Unwrap(proc[p].reservation))
        /\ Count(proc[p].requests, "edit") = 0

\* The first map of the game has a config for its kind and format.
HasConfig(game) ==
    /\ maps(game.details) /= <<>>
    /\ IsSome(config(maps(game.details)[1], kind(game.details),
                     game_format(game.details)))

\* C23: the edit request edit_reservation builds carries the first map,
\* and the config, exactly when the game's window starts at or before the
\* start of the reservation as fetched and the first map has a config;
\* they are then the game's first map and its config.  When the request is
\* answered the reservation holds them; when the game's window starts
\* later the reservation keeps the map and config it had.
C23_MapAndConfigInRequest ==
    [][\A p \in Procs :
          (proc[p].pc = "got" /\ proc'[p].pc /= "got")
          => LET game == Unwrap(proc[p].game)
                 fetched == Unwrap(proc[p].reservation)
                 req == EditReservationRequest(game, fetched)
                 r == game.server.reservation_id
                 sends == start_end_times(game)[1] <= fetched.starts_at
                              /\ HasConfig(game)
             IN /\ IsSome(req.first_map) <=> sends
                /\ IsSome(req.server_config_id) <=> sends
                /\ sends =>
                      /\ req.first_map = Some(maps(game.details)[1])
                      /\ req.server_config_id =
                            config(maps(game.details)[1], kind(game.details),
                                   game_format(game.details))
                      /\ proc'[p].pc = "reserved" =>
                            /\ proc'[p].requests = Append(proc[p].requests, "edit")
                            /\ reservations'[r].first_map = req.first_map
                            /\ reservations'[r].server_config_id = req.server_config_id
                /\ start_end_times(game)[1] > fetched.starts_at =>
                      /\ reservations'[r].first_map = reservations[r].first_map
                      /\ reservations'[r].server_config_id =
                            reservations[r].server_config_id]_vars

\* C23, witness: a format edit of a hosted scrim whose window starts with
\* its reservation sent the map and the config of the new format.
C23_Witness ==
    \E p \in Procs :
        /\ proc[p].pc = "reserved"
        /\ proc[p].cmd.name = "scrim_edit"
        /\ proc[p].cmd.what = "GameFormat"
        /\ proc[p].requests = <<"edit">>
        /\ start_end_times(Unwrap(proc[p].game))[1] = Unwrap(proc[p].reservation).starts_at
        /\ HasConfig(Unwrap(proc[p].game))
        /\ Unwrap(proc[p].reservation).server_config_id = Derived(Unwrap(proc[p].game))[2]

\* A map edit of a scrim hosted on a reservation that starts earlier sent
\* an edit without map and config.
C23_WitnessLater ==
    \E p \in Procs :
        /\ proc[p].pc = "reserved"
        /\ proc[p].cmd.name = "scrim_edit"
        /\ HasConfig(Unwrap(proc[p].game))
        /\ Count(proc[p].requests, "edit") = 1
        /\ start_end_times(Unwrap(proc[p].game))[1] > Unwrap(proc[p].reservation).starts_at

\* The window of the claim, in quarters of an hour: a quarter before the
\* start to a quarter after the end, one hour for a scrim and two for a
\* match.
BookingWindow(game) ==
    [starts_at |-> game.timestamp - 1,
     ends_at |-> game.timestamp + (IF game.details.kind = "Scrim" THEN 4 ELSE 8) + 1]

\* C24: create_reservation asks the service for servers free in the window
\* from a quarter of an hour before the start of the game to a quarter of
\* an hour after its end, a scrim lasting one hour and a match two, and
\* the reservation it creates has that same window.
C24_CreateWindow ==
    [][\A p \in Procs :
          (/\ proc[p].pc = "open"
           /\ ~is_hosted(Unwrap(proc[p].game).server)
           /\ proc'[p].pc /= "open")
          => /\ proc'[p].find = Some(BookingWindow(Unwrap(proc[p].game)))
             /\ proc'[p].pc = "reserved" =>
                   /\ reservations'[Len(reservations')].starts_at
                         = Unwrap(proc'[p].find).starts_at
                   /\ reservations'[Len(reservations')].ends_at
                         = Unwrap(proc'[p].find).ends_at
                   /\ Unwrap(proc'[p].reservation).starts_at
                         = BookingWindow(Unwrap(proc[p].game)).starts_at
                   /\ Unwrap(proc'[p].reservation).ends_at
                         = BookingWindow(Unwrap(proc[p].game)).ends_at]_vars

\* C24, witness: a match was booked for the two hours and a quarter either
\* side that the find-servers request asked for.
C24_Witness ==
    \E p \in Procs :
        /\ proc[p].pc = "reserved"
        /\ proc[p].cmd.name = "match_host"
        /\ proc[p].requests = <<"find", "create">>
        /\ proc[p].find = Some([starts_at |-> Unwrap(proc[p].game).timestamp - 1,
                                ends_at |-> Unwrap(proc[p].game).timestamp + 9])
        /\ Unwrap(proc[p].reservation).ends_at - Unwrap(proc[p].reservation).starts_at = 10

\* The detail columns of a row are those of a scrim, or of a match.
ScrimColumns(model) ==
    /\ model.opponent_user_id /= None /\ model.game_format /= None
    /\ model.maps /= None /\ model.rgl_match_id = None

MatchColumns(model) ==
    /\ model.opponent_user_id = None /\ model.game_format = None
    /\ model.maps = None /\ model.rgl_match_id /= None

\* The detail columns of the row are those of a game of type D.
DetailColumns(D, model) ==
    \/ D /= "Match" /\ ScrimColumns(model)
    \/ D /= "Scrim" /\ MatchColumns(model)

\* C25: a row with both a reservation id and connect info does not decode;
\* a row with valid detail columns and at most one of the two decodes, to a
\* hosted game with the reservation id alone, to a joined game with the
\* connect info alone, and to an undecided game with neither.
C25_ServerColumnsDecode ==
    ViewOf("game") =>
        LET model == Unwrap(view).model
            result == Unwrap(view).result
        IN /\ (model.reservation_id /= None /\ model.connect_info /= None)
                 => ~result.ok
           /\ (/\ DetailColumns(Unwrap(view).type, model)
               /\ model.reservation_id = None \/ model.connect_info = None)
                 => /\ result.ok
                    /\ result.value.server =
                          IF model.reservation_id /= None
                          THEN [tag |-> "Hosted",
                                reservation_id |-> model.reservation_id[1]]
                          ELSE IF model.connect_info /= None
                          THEN [tag |-> "Joined",
                                connect_info |-> model.connect_info[1]]
                          ELSE [tag |-> "Undecided"]

\* C25, witness: a scrim row with both a reservation id and connect info
\* was refused.
C25_Witness ==
    /\ ViewOf("game")
    /\ ScrimColumns(Unwrap(view).model)
    /\ Unwrap(view).type = "ScrimOrMatch"
    /\ Unwrap(view).model.reservation_id /= None
    /\ Unwrap(view).model.connect_info /= None
    /\ ~Unwrap(view).result.ok

\* C26: a row whose server columns decode gives a scrim exactly when
\* opponent, format and maps are present and the match id is absent, a
\* match exactly when the three are absent and the match id is present,
\* and no game for the other fourteen combinations; a scrim only, or a
\* match only, when that is the type asked for.
C26_DetailColumnsDecode ==
    (/\ ViewOf("game")
     /\ Unwrap(view).model.reservation_id = None
            \/ Unwrap(view).model.connect_info = None)
    => LET model == Unwrap(view).model
           result == Unwrap(view).result
           D == Unwrap(view).type
       IN /\ result.ok <=> \/ D /= "Match" /\ ScrimColumns(model)
                           \/ D /= "Scrim" /\ MatchColumns(model)
          /\ ~result.ok => result.error = "InvalidGameDetails"
          /\ (result.ok /\ ScrimColumns(model)) =>
                result.value.details =
                    [kind |-> "Scrim", opponent_user_id |-> model.opponent_user_id[1],
                     game_format |-> model.game_format[1], maps |-> model.maps[1]]
          /\ (result.ok /\ MatchColumns(model)) =>
                result.value.details =
                    [kind |-> "Match", rgl_match_id |-> model.rgl_match_id[1]]

\* C26, witness: a row with all four detail columns present was refused.
C26_Witness ==
    /\ ViewOf("game")
    /\ Unwrap(view).type = "ScrimOrMatch"
    /\ Unwrap(view).model.connect_info = None
    /\ Unwrap(view).model.opponent_user_id /= None
    /\ Unwrap(view).model.game_format /= None
    /\ Unwrap(view).model.maps /= None
    /\ Unwrap(view).model.rgl_match_id /= None
    /\ ~Unwrap(view).result.ok

\* The places of the servers whose address starts with chi or ks.
ChiOrKs(servers) == {i \in DOMAIN servers : servers[i] = "chi" \/ servers[i] = "ks"}

\* C27: when the find-servers request is answered, create_reservation
\* sends a create request for the first server of the answer whose address
\* starts with chi or ks; when the answer has no such server it ends with
\* NoServemeServers, having sent the find-servers request alone, and
\* leaves the reservations, the rows and the game as they were.
C27_FirstPreferredServer ==
    [][\A p \in Procs :
          (/\ proc[p].pc = "open"
           /\ ~is_hosted(Unwrap(proc[p].game).server)
           /\ proc'[p].pc /= "open"
           /\ IsSome(proc'[p].found))
          => IF ChiOrKs(Unwrap(proc'[p].found)) = {}
             THEN /\ proc'[p].pc = "done"
                  /\ proc'[p].result = "NoServemeServers"
                  /\ proc'[p].requests = Append(proc[p].requests, "find")
                  /\ proc'[p].server_id = None
                  /\ proc'[p].game = None
                  /\ proc'[p].write = None
                  /\ reservations' = reservations
                  /\ games' = games
             ELSE /\ proc'[p].requests = proc[p].requests \o <<"find", "create">>
                  /\ proc'[p].result /= "NoServemeServers"
                  /\ \E i \in ChiOrKs(Unwrap(proc'[p].found)) :
                        /\ proc'[p].server_id = Some(i)
                        /\ \A j \in ChiOrKs(Unwrap(proc'[p].found)) : i <= j]_vars

\* C27, witness: the service offered a server in Dallas alone and the host
\* command ended with NoServemeServers after the find-servers request.
C27_Witness ==
    \E p \in Procs :
        /\ proc[p].pc = "done"
        /\ proc[p].result = "NoServemeServers"
        /\ proc[p].found = Some(<<"dal">>)
        /\ proc[p].requests = <<"find">>
        /\ reservations = <<>>

\* Of the servers dal, ks and chi the second was booked.
C27_WitnessPicked ==
    \E p \in Procs :
        /\ proc[p].pc = "reserved"
        /\ proc[p].found = Some(<<"dal", "ks", "chi">>)
        /\ proc[p].server_id = Some(2)
        /\ is_hosted(Unwrap(proc[p].game).server)

\* The first map of a game has a server config for the game's kind and format.
FirstMapHasConfig(game) ==
    /\ maps(game.details) /= <<>>
    /\ IsSome(config(maps(game.details)[1], kind(game.details),
                     game_format(game.details)))

\* C28: create_reservation for a game with no map, or with a first map that
\* has no config for the game's kind and format, is not stopped by that:
\* once a preferred server is found it sends the create request, and the
\* reservation created carries no server config id.
C28_NoConfigStillCreates ==
    [][\A p \in Procs :
          (/\ proc[p].pc = "open"
           /\ ~is_hosted(Unwrap(proc[p].game).server)
           /\ proc'[p].pc /= "open"
           /\ ~FirstMapHasConfig(Unwrap(proc[p].game))
           /\ IsSome(proc'[p].server_id))
          => /\ proc'[p].requests = proc[p].requests \o <<"find", "create">>
             /\ proc'[p].result \in {"", "ServemeError"}
             /\ (proc'[p].pc = "reserved"
                   => /\ reservations' /= reservations
                      /\ reservations'[Len(reservations')].server_config_id = None
                      /\ Unwrap(proc'[p].reservation).server_config_id = None
                      /\ is_hosted(Unwrap(proc'[p].game).server))]_vars

\* C28, witness: a scrim with no map was given a reservation that has no
\* server config id.
C28_Witness ==
    \E p \in Procs :
        /\ proc[p].pc = "reserved"
        /\ maps(Unwrap(proc[p].game).details) = <<>>
        /\ proc[p].requests = <<"find", "create">>
        /\ Unwrap(proc[p].reservation).server_config_id = None

\* A sixes scrim on a payload map was given a reservation that has no
\* server config id.
C28_WitnessNoConfig ==
    \E p \in Procs :
        /\ proc[p].pc = "reserved"
        /\ maps(Unwrap(proc[p].game).details) = <<"pl_upward_f12">>
        /\ game_format(Unwrap(proc[p].game).details) = "Sixes"
        /\ Unwrap(proc[p].reservation).server_config_id = None

\* The game was asked for its reservation in one of the three ways.
Asked ==
    /\ IsSome(view)
    /\ Unwrap(view).op \in {"reservation_id", "get_reservation", "edit_reservation"}

\* C29: a game whose server is undecided or joined, asked for its
\* reservation by reservation_id, get_reservation or edit_reservation,
\* answers the error GameNotHosted, and no request was sent to the booking
\* service: nothing was fetched into the cache.
C29_NotHostedFails ==
    (Asked /\ ~is_hosted(Unwrap(view).game.server))
    => /\ Unwrap(view).result = [ok |-> FALSE, error |-> "GameNotHosted"]
       /\ Unwrap(view).requests = <<>>
       /\ \A r \in ReservationIds : IsNone(cache[r])

\* C29, witness: a joined game was asked to edit its reservation while the
\* service held one, and answered GameNotHosted.
C29_Witness ==
    /\ ViewOf("edit_reservation")
    /\ is_joined(Unwrap(view).game.server)
    /\ reservations /= <<>>
    /\ Unwrap(view).result = [ok |-> FALSE, error |-> "GameNotHosted"]

\* An undecided game was asked for its reservation.
C29_WitnessUndecided ==
    /\ ViewOf("get_reservation")
    /\ Unwrap(view).game.server = Undecided
    /\ ~Unwrap(view).result.ok

\* A hosted game was asked to edit its reservation and a request was sent.
C29_WitnessHosted ==
    /\ ViewOf("edit_reservation")
    /\ is_hosted(Unwrap(view).game.server)
    /\ Unwrap(view).requests = <<"get", "edit">>
    /\ Unwrap(view).result.ok

\* The edits of a scrim's time, format and maps.
FacetEdit(cmd) ==
    /\ cmd.name = "scrim_edit"
    /\ cmd.what \in {"DateTime", "GameFormat", "Maps"}

C30_WitnessTime ==
    \E p \in Procs :
        /\ proc[p].pc = "reserved"
        /\ proc[p].cmd.name = "scrim_edit"
        /\ proc[p].cmd.what = "DateTime"
        /\ proc[p].cmd.new_date_time /= proc[p].cmd.date_time
        /\ Unwrap(proc[p].game).server = Undecided
        /\ IsNone(team_guild.serveme_api_key)

\* The format of an undecided scrim was changed by a team without a key.
C30_WitnessFormat ==
    \E p \in Procs :
        /\ proc[p].pc = "done"
        /\ proc[p].result = "ok"
        /\ proc[p].cmd.name = "scrim_edit"
        /\ proc[p].cmd.what = "GameFormat"
        /\ IsNone(team_guild.serveme_api_key)
        /\ \E r \in RowsAt(games, proc[p].cmd.date_time) :
              IsNone(r.connect_info) /\ IsNone(r.reservation_id)

\* The host commands that name an existing reservation.
HostsOnGiven(cmd) == IsHost(cmd) /\ IsSome(cmd.reservation_id)

\* The window of the reservation covers the window the game needs.
Covers(reservation, game) ==
    /\ reservation.starts_at <= start_end_times(game)[1]
    /\ reservation.ends_at >= start_end_times(game)[2]

\* C31: a host command given a reservation id never sends a find-servers
\* or a create request and creates no reservation; when its
\* edit_reservation has succeeded the game is Hosted(given id) and the
\* window of that reservation covers the game; when the command has
\* succeeded the row committed at the time of the game holds the given id.
C31_HostOnGivenReservation ==
    [][\A p \in Procs :
          (HostsOnGiven(proc'[p].cmd) /\ proc'[p].pc /= "begun")
          => LET r == Unwrap(proc'[p].cmd.reservation_id)
             IN /\ Count(proc'[p].requests, "find") = 0
                /\ Count(proc'[p].requests, "create") = 0
                /\ (proc[p].pc \in {"open", "got"} /\ proc'[p].pc /= proc[p].pc)
                      => Len(reservations') = Len(reservations)
                /\ (proc[p].pc = "got" /\ proc'[p].pc = "reserved")
                      => /\ Unwrap(proc'[p].game).server = Hosted(r)
                         /\ Covers(reservations'[r], Unwrap(proc'[p].game))
                /\ (proc[p].pc = "refreshed" /\ Succeeded(p)')
                      => \E row \in RowsAt(games', TimeOf(proc'[p].cmd)) :
                            /\ row.reservation_id = Some(r)
                            /\ row.connect_info = None]_vars

\* C31, witness: a scrim was hosted on the reservation of another game,
\* an edit request grew the reservation, and the command succeeded.
C31_Witness ==
    \E p \in Procs :
        /\ Succeeded(p)
        /\ proc[p].cmd.name = "scrim_host"
        /\ proc[p].cmd.reservation_id = Some(1)
        /\ proc[p].requests = <<"edit">>
        /\ \E row \in RowsAt(games, TimeOf(proc[p].cmd)) : row.reservation_id = Some(1)

\* The kind of game an edit command asks get_game for.
KindOf(cmd) == IF cmd.name = "scrim_edit" THEN "Scrim" ELSE "Match"

\* The row is of the other kind than the one asked for.
OtherKind(D, row) ==
    IF D = "Scrim" THEN IsSome(row.rgl_match_id) ELSE IsNone(row.rgl_match_id)

\* C32: when an edit command looks up its game and the row at that time is
\* of the other kind, the command ends with GameNotFound, having written
\* nothing and sent nothing; and no step an edit command takes changes or
\* removes a committed row of the other kind.
C32_KindRestrictedLookup ==
    [][\A p \in Procs :
          /\ (/\ proc[p].pc = "begun"
               /\ IsEdit(proc[p].cmd)
               /\ proc'[p].pc /= "begun"
               /\ \E row \in RowsAt(Visible(p), proc[p].cmd.date_time) :
                     OtherKind(KindOf(proc[p].cmd), row))
              => /\ proc'[p].pc = "done"
                 /\ proc'[p].result = "GameNotFound"
                 /\ proc'[p].write = None
                 /\ proc'[p].requests = proc[p].requests
                 /\ games' = games
          /\ (IsEdit(proc[p].cmd) /\ proc'[p].pc /= proc[p].pc
               /\ proc[p].pc \notin {"idle", "done"})
              => /\ \A row \in games :
                       OtherKind(KindOf(proc[p].cmd), row) => row \in games'
                 /\ IsSome(proc'[p].write)
                       => ~OtherKind(KindOf(proc[p].cmd), Unwrap(proc'[p].write).row)]_vars

\* C32, witness: a scrim edit asked for the time at which a match is
\* stored and ended with GameNotFound.
C32_Witness ==
    \E p \in Procs :
        /\ proc[p].pc = "done"
        /\ proc[p].cmd.name = "scrim_edit"
        /\ proc[p].result = "GameNotFound"
        /\ \E row \in RowsAt(games, proc[p].cmd.date_time) : IsSome(row.rgl_match_id)

\* A match edit asked for the time at which a scrim is stored.
C32_WitnessMatch ==
    \E p \in Procs :
        /\ proc[p].pc = "done"
        /\ proc[p].cmd.name = "match_edit"
        /\ proc[p].result = "GameNotFound"
        /\ \E row \in RowsAt(games, proc[p].cmd.date_time) : IsNone(row.rgl_match_id)

\* The server assignment the stored row decodes to.
StoredServer(row) == Returned(row).value.server

\* The transitions of the server assignment as C33 tells them.
Transition(server, cmd) ==
    CASE cmd.what = "ReservationId" /\ IsSome(cmd.reservation_id) ->
            Hosted(Unwrap(cmd.reservation_id))
      [] cmd.what = "ReservationId" /\ IsNone(cmd.reservation_id) ->
            IF is_hosted(server) THEN Undecided ELSE server
      [] cmd.what = "ConnectInfo" /\ IsSome(cmd.connect_info) ->
            Joined(Unwrap(cmd.connect_info))
      [] cmd.what = "ConnectInfo" /\ IsNone(cmd.connect_info) ->
            IF is_joined(server) THEN Undecided ELSE server

\* C33: when the update of a reservation-id or connect-info edit, of a
\* scrim or of a match, succeeds while no other command is running, the
\* server assignment of the row it wrote is the one the transitions give
\* for the server assignment the row had.
C33_ServerTransitions ==
    [][\A p \in Procs :
          (/\ proc[p].pc = "reserved"
           /\ EditsServer(proc[p].cmd)
           /\ proc'[p].pc = "written"
           /\ \A q \in Procs \ {p} : proc[q].pc \in {"idle", "done"})
          => \A row \in RowsAt(games, proc[p].cmd.date_time) :
                Unwrap(proc'[p].game).server =
                    Transition(StoredServer(row), proc[p].cmd)]_vars

\* The host command of p has created the reservation it holds.
CreatedByHost(p) ==
    /\ IsHost(proc[p].cmd)
    /\ Count(proc[p].requests, "create") = 1
    /\ IsSome(proc[p].reservation)

\* C34: when a host command that created a reservation finishes, with
\* success or with an error, a committed row holds the id of that
\* reservation.
C34_NoOrphanedReservation ==
    [][\A p \in Procs :
          (/\ CreatedByHost(p)
           /\ proc[p].pc /= "done"
           /\ proc'[p].pc = "done")
          => \E row \in games' :
                row.reservation_id = Some(Unwrap(proc[p].reservation).id)]_vars

\* C35: in every configuration of the team a stored schedule message id
\* comes with a stored schedule channel id.
C35_MessageImpliesChannel ==
    IsSome(team_guild.schedule_message_id) => IsSome(team_guild.schedule_channel_id)

\* The suggested slots shown.
Suggested == Unwrap(view).choices

\* C36: the slots autocomplete_times offers hold no start time at which
\* the team has a game and none earlier than half an hour before now,
\* and they are 25 at most; ensure_time_open passes for each of them on
\* the rows the suggestion was computed from.
C36_SuggestedSlotsAreOpen ==
    ViewOf("slots")
    => /\ Len(Suggested) <= 25
       /\ \A i \in 1..Len(Suggested) :
             /\ \A g \in Unwrap(view).rows : g.timestamp /= Suggested[i]
             /\ unix_timestamp(Suggested[i]) >= unix_timestamp(Unwrap(view).now) - 30
             /\ ensure_time_open(Unwrap(view).rows, Suggested[i]) = "ok"

\* C36, witness: at nine in the evening the team has a game at half past
\* nine; asked for the days that start with t, it is offered half past
\* eight and half past ten of today, and not the taken slot between them.
C36_Witness ==
    /\ ViewOf("slots")
    /\ Unwrap(view).query = <<"t">>
    /\ Unwrap(view).now = <<1, 21, 0>>
    /\ \E g \in Unwrap(view).rows : g.timestamp = <<1, 21, 30>>
    /\ Len(Suggested) >= 2
    /\ Suggested[1] = <<1, 20, 30>>
    /\ Suggested[2] = <<1, 22, 30>>

\* Tomorrow has more open slots than are offered.
C36_WitnessCapped ==
    /\ ViewOf("slots")
    /\ Unwrap(view).query = <<"t", "m">>
    /\ Len(Suggested) = 25

\* What the client last returned for r from a create or an edit, while that
\* response is within its time to live; whether a delete of r has returned.
LastWritten(r) == Unwrap(view).written[r]

DeleteReturned(r) == Unwrap(view).deleted[r]

\* The step in which p asks for reservation r and is answered from CACHE.
ServedFromCache(p, r) ==
    /\ proc[p].pc = "idle"
    /\ proc'[p].pc = "done"
    /\ proc'[p].cmd = ClientGet(r)
    /\ proc'[p].result = ""

\* C37: reservation cache coherence.  A get served from the cache sends no
\* request; a get of R that starts after a create or edit of R has returned,
\* within the time to live, returns the response of that create or edit; a
\* get of R that starts after a delete of R has returned is not answered
\* with the value cached before the delete.
C37_CacheCoherence ==
    [][\A p \in Procs, r \in ReservationIds :
          ServedFromCache(p, r) =>
             /\ proc'[p].requests = <<>>
             /\ IsSome(LastWritten(r)) => proc'[p].reservation = LastWritten(r)
             /\ ~DeleteReturned(r)]_vars

\* C38: connect-info text round trip.  For an address and a password without
\* semicolon, double quote or surrounding blanks, parsing the stored text
\* connect <address>; password "<password>" yields the same address and the
\* same password.
C38_ConnectInfoRoundTrip ==
    ViewOf("try_get_by") =>
       /\ Unwrap(view).result.ok
       /\ Unwrap(view).result.value = Unwrap(view).supplied

====
